---- MODULE Spec2Model ----
(***************************************************************************)
(* Verification model of research-powerpack-mcp.                           *)
(*                                                                         *)
(*   SpecDispatch  the call-tool request handler of index.ts together with *)
(*                 registry.executeTool (lookup, capability gate, schema   *)
(*                 validation, handler invocation, response shaping)       *)
(*   SpecFanout    the fan-out executors: the sliding-window pool          *)
(*                 (processWithConcurrencyPool), ScraperClient.batchScrape *)
(*                 and scrapeMultiple, processBatchWithRetry and           *)
(*                 processMultipleWithLLM                                  *)
(*   SpecRetry     the retry engines withRetry and retryWithBackoff        *)
(*   SpecPure      the pure functions: classifyError, calculateBackoff,    *)
(*                 calculateDelay, calculateTokenAllocation and the        *)
(*                 comment allocation of get_reddit_post                   *)
(*   SpecScrape    ScraperClient.scrapeWithFallback, current and older     *)
(*   SpecSearch    SearchClient.searchMultiple / searchReddit and          *)
(*                 SerperClient.searchMany                                 *)
(*   SpecReddit    RedditClient: token cache, auth, getPost, getPosts      *)
(*   SpecLLM       processContentWithLLM and its retry loop                *)
(*   SpecShutdown  gracefulShutdown and the process-level handlers of      *)
(*                 index.ts                                                *)
(*   SpecResearch  handleDeepResearch behind the deep_research tool        *)
(*   SpecScrapeLoop  ScraperClient.scrape request by request, under        *)
(*                 scrapeWithFallback and batchScrape                      *)
(*   SpecRetryLoops  the retry loops of the engines and of the search,     *)
(*                 LLM and scrape adapters side by side                    *)
(*   SpecComments  the comment flattening of RedditClient.getPost          *)
(*   FairReddit, FairShutdown, FairScrapeLoop  the same machines with the  *)
(*                 fairness the liveness properties are checked under      *)
(*                                                                         *)
(* Texts (markdown bodies, error messages) are sequences of word tokens;   *)
(* String.includes is contiguous-subsequence search over the tokens.  The  *)
(* token "CROSS" stands for the cross-mark emoji of the error sentinels.   *)
(***************************************************************************)
EXTENDS Integers, Sequences, FiniteSets, TLC

VARIABLES
  \* ---- dispatcher -------------------------------------------------------
  capabilities,    \* set of enabled capability tags (getCapabilities())
  dpc,             \* "idle" | "handler" | "replied"
  request,         \* [name, args] of the call-tool request being served
  handlerInvoked,  \* TRUE once tool.handler(validatedParams) was called
  providerCalls,   \* outbound provider calls made while serving the request
  handlerOutcome,  \* what the handler did: none / returned body / threw
  execOutcome,     \* how executeTool ended: result or raised
  reply,           \* how the request handler of index.ts ended
  \* ---- fan-out ----------------------------------------------------------
  executor,        \* "none" | "pool" | "batchScrape" | "llm" | "scrapeMultiple" |
                   \* "processBatchWithRetry"
  inputs,          \* the input sequence (urls / contents)
  fpc,             \* "init" | "running" | "sleeping" | "resolved" | "rejected"
  nextIndex,       \* pool: next input to start; batches: start of the batch
  activeCount,     \* pool: the executor's own in-flight counter
  completedCount,  \* pool: the executor's completion counter
  running,         \* indices of tasks started and not yet settled
  settled,         \* index -> settlement of its task promise, while held
  results,         \* the result array / list built by the executor
  started,         \* indices whose task was ever started
  completionOrder, \* the indices in the order their tasks settled
  \* ---- retry engine -----------------------------------------------------
  engine,          \* "withRetry" | "retryWithBackoff"
  maxRetries,      \* opts.maxRetries / fullConfig.maxRetries
  rpc,             \* "idle" | "attempt" | "sleep" | "done" | "raised"
  attempt,         \* loop variable
  calls,           \* number of invocations of fn so far
  sleeps,          \* number of backoff sleeps begun so far
  lastFailure,     \* the last thrown value, with its classification
  retryResult,     \* the value the engine returned
  history,         \* the events of this call, in order
  cancelRequested, \* Given(calls) once a cancellation signal fired in a sleep
  \* ---- pure functions ---------------------------------------------------
  pcall,           \* the function applied and its arguments, or NoCall
  pret,            \* what the application returned or raised
  \* ---- scrape with fallback ---------------------------------------------
  client,          \* "current" (clients/scraper.ts as of part_006) | "legacy"
  behaviour,       \* what the provider does to each mode of the ladder
  spc,             \* "idle" | "init" | "running" | "returned" | "rejected"
  modeIdx,         \* the ladder mode being scraped (1-based)
  attempted,       \* the modes scraped so far, each with how scrape ended
  fallbackResult,  \* the ScrapeResponse scrapeWithFallback returned
  \* ---- search adapters --------------------------------------------------
  searchOp,        \* "searchMultiple" | "searchReddit" | "searchMany"
  searchCount,     \* number of keywords / queries (searchReddit: 0 = blank)
  searchReplies,   \* what the provider does to each request
  searchAttempt,   \* loop variable of the retry loop
  searchPending,   \* searchMany: queries whose search has not settled
  searchResult,    \* what the operation returned, one entry per response
  qpc,             \* "idle" | "init" | "fetching" | "sleeping" | "done"
  \* ---- Reddit client (lib/reddit.ts) ------------------------------------
  token,           \* TRUE when this.token holds an access token
  tokenExpiry,     \* this.tokenExpiry, in ms
  now,             \* Date.now(), in ms
  redditUrls,      \* the urls of the getPosts call: TRUE = parseUrl matches
  posts,           \* per url, where its getPost call is
  refreshes,       \* access-token requests sent during this getPosts call
  getPostsCalls,   \* getPosts calls made on this client so far
  gpc,             \* "none" | "idle" | "running"
  \* ---- LLM processor (services/llm-processor.ts) ------------------------
  llmContent,      \* the content argument
  llmUse,          \* config.use_llm
  llmProcessor,    \* TRUE when a processor (OpenAI client) was passed
  llmPrompt,       \* the content inside the prompt of the request
  llmAttempt,      \* loop variable of the retry loop
  llmReply,        \* how the last chat.completions.create call ended
  llmResult,       \* the LLMResult returned
  lpc,             \* "idle" | "init" | "requesting" | "sleeping" | "done" | "raised"
  \* ---- shutdown (index.ts) ----------------------------------------------
  isShuttingDown,  \* the module-level flag
  sigintListener,  \* TRUE while the once('SIGINT') listener is installed
  triggers,        \* the shutdown triggers received so far, in order
  closeCalls,      \* number of server.close() invocations
  closeError,      \* TRUE once server.close() rejected (the catch block ran)
  pendingExit,     \* exitCode of the gracefulShutdown call awaiting close
  exitCode,        \* the code the process exited with
  hpc,             \* "idle" | "serving" | "closing" | "exited" | "killed"
  \* ---- deep research handler (tools/research.ts) ------------------------
  researchQuestions, \* params.questions, each with what the client does to it
  researchClientOk,  \* FALSE when new ResearchClient() throws
  researchPending,   \* questions whose research promise has not settled
  researchResults,   \* the QuestionResult of each settled question
  researchOutcome,   \* what executeTool makes of the handler's markdown
  xpc,               \* "idle" | "init" | "running" | "returned" | "raised"
  \* ---- ScraperClient.scrape: the retry loop of each mode ----------------
  batchLeft,         \* urls of the batch not yet scraped
  ladderPos,         \* position in the ladder of the mode being scraped
  tryIdx,            \* `attempt` of the for loop of scrape
  httpRequests,      \* HTTP requests issued for the current url, per mode
  lastHttp,          \* the provider's reply to the latest request
  lastTry,           \* the `attempt` in which that reply arrived
  lastDecision,      \* what scrape did with it: "retry" | "return" | "raise"
  loopLastError,     \* lastError of scrape
  sawRateLimit,      \* TRUE once a request for the current url got a 429
  loopResult,        \* what scrapeWithFallback returned for the current url
  rateLimitedUrls,   \* urls of the batch that got a 429 so far
  rateLimitHits,     \* rateLimitHits of batchScrape
  ypc                \* "idle" | "init" | "fetching" | "sleeping" | "settled" | "done"

dvars == <<capabilities, dpc, request, handlerInvoked, providerCalls,
           handlerOutcome, execOutcome, reply>>
fvars == <<executor, inputs, fpc, nextIndex, activeCount, completedCount,
           running, settled, results, started, completionOrder>>
rvars == <<engine, maxRetries, rpc, attempt, calls, sleeps, lastFailure,
           retryResult, history, cancelRequested>>
pvars == <<pcall, pret>>
svars == <<client, behaviour, spc, modeIdx, attempted, fallbackResult>>
qvars == <<searchOp, searchCount, searchReplies, searchAttempt, searchPending,
           searchResult, qpc>>
tvars == <<token, tokenExpiry, now, redditUrls, posts, refreshes, getPostsCalls, gpc>>
lvars == <<llmContent, llmUse, llmProcessor, llmPrompt, llmAttempt, llmReply,
           llmResult, lpc>>
hvars == <<isShuttingDown, sigintListener, triggers, closeCalls, closeError,
           pendingExit, exitCode, hpc>>
xvars == <<researchQuestions, researchClientOk, researchPending, researchResults,
           researchOutcome, xpc>>
yvars == <<batchLeft, ladderPos, tryIdx, httpRequests, lastHttp, lastTry, lastDecision,
           loopLastError, sawRateLimit, loopResult, rateLimitedUrls, rateLimitHits, ypc>>
vars == <<dvars, fvars, rvars, pvars, svars, qvars, tvars, lvars, hvars, xvars, yvars>>

\* what the actions of one part leave alone
notDispatch == <<fvars, rvars, pvars, svars, qvars, tvars, lvars, hvars, xvars, yvars>>
notFanout == <<dvars, rvars, pvars, svars, qvars, tvars, lvars, hvars, xvars, yvars>>
notRetry == <<dvars, fvars, pvars, svars, qvars, tvars, lvars, hvars, xvars, yvars>>
notPure == <<dvars, fvars, rvars, svars, qvars, tvars, lvars, hvars, xvars, yvars>>
notScrape == <<dvars, fvars, rvars, pvars, qvars, tvars, lvars, hvars, xvars, yvars>>
notSearch == <<dvars, fvars, rvars, pvars, svars, tvars, lvars, hvars, xvars, yvars>>
notReddit == <<dvars, fvars, rvars, pvars, svars, qvars, lvars, hvars, xvars, yvars>>
notLLM == <<dvars, fvars, rvars, pvars, svars, qvars, tvars, hvars, xvars, yvars>>
notShutdown == <<dvars, fvars, rvars, pvars, svars, qvars, tvars, lvars, xvars, yvars>>
notResearch == <<dvars, fvars, rvars, pvars, svars, qvars, tvars, lvars, hvars, yvars>>
notScrapeLoop == <<dvars, fvars, rvars, pvars, svars, qvars, tvars, lvars, hvars, xvars>>

----------------------------------------------------------------------------
(* Text helpers                                                            *)

\* String.prototype.includes over token sequences
Includes(s, sub) ==
  \E i \in 0..(Len(s) - Len(sub)) : SubSeq(s, i + 1, i + Len(sub)) = sub

\* the tokens whose lower-case form differs
LowerTok(t) ==
  CASE t = "Timeout" -> "timeout"
    [] t = "Timed" -> "timed"
    [] t = "Rate" -> "rate"
    [] t = "Limit" -> "limit"
    [] t = "Too" -> "too"
    [] t = "Many" -> "many"
    [] t = "Requests" -> "requests"
    [] OTHER -> t

\* String.prototype.toLowerCase
toLowerCase(s) == [i \in 1..Len(s) |-> LowerTok(s[i])]

RECURSIVE Join(_, _)
\* Array.prototype.join: the elements of seqs separated by sep
Join(seqs, sep) ==
  IF Len(seqs) = 0 THEN <<>>
  ELSE IF Len(seqs) = 1 THEN seqs[1]
  ELSE seqs[1] \o <<sep>> \o Join(Tail(seqs), sep)

\* an optional number: given with a value, or absent / undefined
Given(v) == [given |-> TRUE, value |-> v]
Undefined == [given |-> FALSE, value |-> 0]

----------------------------------------------------------------------------
(* Error values and the classifier (utils/errors.ts)                       *)

\* A thrown / rejected value.  tag: "null" (null or undefined), "DOMAbort"
\* (a DOMException named AbortError), "Error" (an Error instance), "object"
\* (a plain object), "string" (a thrown string, whose text is `words`).
\* msgType is the type of its .message field: "undefined", "string" (text in
\* `words`) or "number" (a truthy non-string).  status is response.status ||
\* status, 0 when absent.
Err(tag, msgType, words, code, name, status) ==
  [tag |-> tag, msgType |-> msgType, words |-> words, code |-> code,
   name |-> name, status |-> status]

ErrNull == Err("null", "undefined", <<>>, "none", "none", 0)
ErrAbort == Err("DOMAbort", "string", <<"Aborted">>, "none", "AbortError", 0)
ErrBoom == Err("Error", "string", <<"boom">>, "none", "Error", 0)
ErrTimeoutMsg == Err("Error", "string", <<"Request", "Timeout">>, "none", "Error", 0)
ErrConnReset == Err("Error", "string", <<"socket", "hang", "up">>, "ECONNRESET", "Error", 0)
ErrHttp429 == Err("Error", "string", <<"429", "Too", "Many", "Requests">>, "none", "Error", 429)
ErrHttp401 == Err("Error", "string", <<"Unauthorized">>, "none", "Error", 401)
ErrRateLimitString == Err("string", "undefined", <<"rate", "limit", "exceeded">>, "none", "none", 0)
ErrNumericMessage == Err("object", "number", <<>>, "none", "none", 0)

\* the values a failing operation may throw in the model
ThrownValues ==
  {ErrNull, ErrAbort, ErrBoom, ErrTimeoutMsg, ErrConnReset, ErrHttp429,
   ErrHttp401, ErrRateLimitString, ErrNumericMessage}

\* String(error)
StringOf(e) ==
  CASE e.tag = "string" -> e.words
    [] e.tag = "null" -> <<"null">>
    [] e.tag = "object" -> <<"[object", "Object]">>
    [] e.tag = "number" -> <<"42">>
    [] OTHER -> <<e.name, ":">> \o e.words

\* const message = err.message || String(error): its type and its text
MessageType(e) == IF e.msgType = "number" THEN "number" ELSE "string"
MessageText(e) == IF e.msgType = "string" /\ e.words # <<>> THEN e.words ELSE StringOf(e)

IsNetworkCode(c) == c \in {"ECONNREFUSED", "ENOTFOUND", "ECONNRESET"}

\* the disjuncts of the timeout test that are evaluated before
\* message.toLowerCase()
IsTimeoutCodeOrName(e) ==
  e.code \in {"ECONNABORTED", "ETIMEDOUT"} \/ e.name = "AbortError"

StructuredError(code, retryable, statusCode) ==
  [code |-> code, retryable |-> retryable, statusCode |-> statusCode]

\* the switch without its default branch for the other statuses >= 500
classifyHttpError_no5xxDefault(status) ==
  CASE status = 400 -> StructuredError("INVALID_INPUT", FALSE, status)
    [] status = 401 -> StructuredError("AUTH_ERROR", FALSE, status)
    [] status = 403 -> StructuredError("QUOTA_EXCEEDED", FALSE, status)
    [] status = 404 -> StructuredError("NOT_FOUND", FALSE, status)
    [] status = 408 -> StructuredError("TIMEOUT", TRUE, status)
    [] status = 429 -> StructuredError("RATE_LIMITED", TRUE, status)
    [] status = 500 -> StructuredError("INTERNAL_ERROR", TRUE, status)
    [] status = 502 -> StructuredError("SERVICE_UNAVAILABLE", TRUE, status)
    [] status = 503 -> StructuredError("SERVICE_UNAVAILABLE", TRUE, status)
    [] status = 504 -> StructuredError("TIMEOUT", TRUE, status)
    [] status = 510 -> StructuredError("SERVICE_UNAVAILABLE", TRUE, status)
    [] OTHER -> StructuredError("UNKNOWN_ERROR", FALSE, status)

classifyHttpError(status) ==
  CASE status = 400 -> StructuredError("INVALID_INPUT", FALSE, status)
    [] status = 401 -> StructuredError("AUTH_ERROR", FALSE, status)
    [] status = 403 -> StructuredError("QUOTA_EXCEEDED", FALSE, status)
    [] status = 404 -> StructuredError("NOT_FOUND", FALSE, status)
    [] status = 408 -> StructuredError("TIMEOUT", TRUE, status)
    [] status = 429 -> StructuredError("RATE_LIMITED", TRUE, status)
    [] status = 500 -> StructuredError("INTERNAL_ERROR", TRUE, status)
    [] status = 502 -> StructuredError("SERVICE_UNAVAILABLE", TRUE, status)
    [] status = 503 -> StructuredError("SERVICE_UNAVAILABLE", TRUE, status)
    [] status = 504 -> StructuredError("TIMEOUT", TRUE, status)
    [] status = 510 -> StructuredError("SERVICE_UNAVAILABLE", TRUE, status)
    [] OTHER -> IF status >= 500
                THEN StructuredError("SERVICE_UNAVAILABLE", TRUE, status)
                ELSE StructuredError("UNKNOWN_ERROR", FALSE, status)

\* classifyError raises a TypeError when it reaches message.toLowerCase()
\* with a message that is not a string
classifyErrorThrows(e) ==
  /\ e.tag \notin {"null", "DOMAbort"}
  /\ ~IsNetworkCode(e.code)
  /\ ~IsTimeoutCodeOrName(e)
  /\ MessageType(e) # "string"

\* classifyError, where it returns
classifyError(e) ==
  LET message == MessageText(e) IN
  IF e.tag = "null" THEN StructuredError("UNKNOWN_ERROR", FALSE, 0)
  ELSE IF e.tag = "DOMAbort" THEN StructuredError("TIMEOUT", TRUE, 0)
  ELSE IF IsNetworkCode(e.code) THEN StructuredError("NETWORK_ERROR", TRUE, 0)
  ELSE IF \/ IsTimeoutCodeOrName(e)
          \/ Includes(toLowerCase(message), <<"timeout">>)
          \/ Includes(toLowerCase(message), <<"timed", "out">>)
       THEN StructuredError("TIMEOUT", TRUE, 0)
  ELSE IF e.status # 0 THEN classifyHttpError(e.status)
  ELSE IF \/ Includes(message, <<"API_KEY">>)
          \/ Includes(message, <<"api_key">>)
          \/ Includes(message, <<"Invalid", "API">>)
       THEN StructuredError("AUTH_ERROR", FALSE, 0)
  ELSE IF \/ Includes(message, <<"JSON">>)
          \/ Includes(message, <<"parse">>)
          \/ Includes(message, <<"Unexpected", "token">>)
       THEN StructuredError("PARSE_ERROR", FALSE, 0)
  ELSE StructuredError("UNKNOWN_ERROR", FALSE, 0)

\* the TypeError classifyError itself raises
ErrNotAFunction ==
  Err("Error", "string", <<"message.toLowerCase", "is", "not", "a", "function">>,
      "none", "TypeError", 0)

----------------------------------------------------------------------------
(* Tool registry and dispatcher (tools/registry.ts, index.ts)              *)

CapabilityTags == {"search", "reddit", "deepResearch", "scraping"}

ToolNames ==
  {"search_reddit", "get_reddit_post", "deep_research", "scrape_links", "web_search"}

\* property names every object literal inherits from Object.prototype
ObjectPrototypeKeys == {"constructor"}

\* names a client may send
RequestNames == ToolNames \cup ObjectPrototypeKeys \cup {"no_such_tool"}

\* the array lengths a request may carry in its list parameter
ArgLens == {0, 2, 3, 51}

\* args of a request: a non-object, or an object whose list parameter
\* (queries / urls / questions / keywords) is missing, not an array or an
\* array of `len` strings, and whose typed optional parameter (date_after /
\* max_comments) is absent, of the right type or of the wrong type
ArgValues ==
  {[isObject |-> FALSE, items |-> "missing", len |-> 0, opt |-> "absent"]}
  \cup [isObject : {TRUE}, items : {"missing", "notArray"}, len : {0},
        opt : {"absent", "wrongType"}]
  \cup [isObject : {TRUE}, items : {"array"}, len : ArgLens,
        opt : {"absent", "ok", "wrongType"}]

NoText == <<>>

\* searchRedditParamsSchema
searchRedditParamsSchema ==
  [field |-> "queries", min |-> 3, max |-> 50, opt |-> "date_after"]

\* getRedditPostParamsSchema
getRedditPostParamsSchema ==
  [field |-> "urls", min |-> 2, max |-> 50, opt |-> "max_comments"]

\* webSearchParamsSchema
webSearchParamsSchema ==
  [field |-> "keywords", min |-> 3, max |-> 100, opt |-> "none"]

\* deepResearchParamsSchema
deepResearchParamsSchema ==
  [field |-> "questions", min |-> 1, max |-> 10, opt |-> "none"]

\* scrapeLinksParamsSchema
scrapeLinksParamsSchema ==
  [field |-> "urls", min |-> 1, max |-> 50, opt |-> "none"]

\* the registry entries; sentinel is the substring transformResponse looks
\* for, NoText for an entry without transformResponse
toolRegistry(name) ==
  CASE name = "search_reddit" ->
         [capability |-> "search", schema |-> searchRedditParamsSchema,
          sentinel |-> NoText]
    [] name = "get_reddit_post" ->
         [capability |-> "reddit", schema |-> getRedditPostParamsSchema,
          sentinel |-> NoText]
    [] name = "deep_research" ->
         [capability |-> "deepResearch", schema |-> deepResearchParamsSchema,
          sentinel |-> <<"#", "CROSS", "Error">>]
    [] name = "scrape_links" ->
         [capability |-> "scraping", schema |-> scrapeLinksParamsSchema,
          sentinel |-> <<"#", "CROSS", "Scraping", "Failed">>]
    [] name = "web_search" ->
         [capability |-> "search", schema |-> webSearchParamsSchema,
          sentinel |-> <<"#", "CROSS", "web_search">>]

\* const tool = toolRegistry[name]: a descriptor, a member inherited from
\* Object.prototype (truthy, with no capability and no schema) or undefined
RegistryLookup(name) ==
  IF name \in ToolNames THEN "descriptor"
  ELSE IF name \in ObjectPrototypeKeys THEN "inherited"
  ELSE "undefined"

\* tool.capability && !capabilities[tool.capability]
CapabilityMissing(tool, caps) == tool.capability \notin caps

\* getMissingEnvMessage(capability)
getMissingEnvMessage(capability) ==
  <<"Missing", "environment", "variable", "for", capability>>

\* the issues of the ZodError schema.parse(args) throws, <<>> when it parses
ZodIssues(schema, args) ==
  IF ~args.isObject THEN <<[path |-> <<>>, message |-> "invalid_type"]>>
  ELSE
    (CASE args.items = "missing" ->
            <<[path |-> <<schema.field>>, message |-> "Required"]>>
       [] args.items = "notArray" ->
            <<[path |-> <<schema.field>>, message |-> "invalid_type"]>>
       [] args.items = "array" /\ args.len < schema.min ->
            <<[path |-> <<schema.field>>, message |-> "too_small"]>>
       [] args.items = "array" /\ args.len > schema.max ->
            <<[path |-> <<schema.field>>, message |-> "too_big"]>>
       [] OTHER -> <<>>)
    \o
    (IF schema.opt # "none" /\ args.opt = "wrongType"
     THEN <<[path |-> <<schema.opt>>, message |-> "invalid_type"]>>
     ELSE <<>>)

\* i.path.join('.') || 'root', for the one-key paths of these schemas
PathString(path) == IF Len(path) = 0 THEN "root" ELSE path[1]

\* `- **${path}**: ${message}`
IssueLine(i) == <<"-", "**", PathString(i.path), "**", ":", i.message>>

RenderIssues_firstOnly(issues) == IssueLine(issues[1])

\* error.issues.map(...).join('\n')
RenderIssues(issues) ==
  Join([k \in 1..Len(issues) |-> IssueLine(issues[k])], "\n")

ValidationHeader == <<"#", "CROSS", "Validation", "Error", "\n", "\n">>

\* createToolErrorFromStructured(structured)
createToolErrorFromStructured(structured) ==
  [text |-> <<"#", "CROSS", structured.code>>, isError |-> "true"]

NoError == Err("none", "undefined", <<>>, "none", "none", 0)

\* new McpError(McpErrorCode.MethodNotFound, ...)
ErrMethodNotFound ==
  Err("McpError", "string", <<"Method", "not", "found">>, "none", "McpError", 0)

\* the TypeError of reading .parse of an undefined schema
ErrParseOfUndefined ==
  Err("Error", "string",
      <<"Cannot", "read", "properties", "of", "undefined", "(reading", "parse", ")">>,
      "none", "TypeError", 0)

Returned(text, isError) ==
  [kind |-> "result", text |-> text, isError |-> isError, error |-> NoError]
Raised(error) ==
  [kind |-> "raised", text |-> NoText, isError |-> "absent", error |-> error]
Pending == [kind |-> "none", text |-> NoText, isError |-> "absent", error |-> NoError]
Invoke == [kind |-> "invoke", text |-> NoText, isError |-> "absent", error |-> NoError]

\* catch (error) { const structured = classifyError(error);
\*                 return createToolErrorFromStructured(structured); }
ClassifyAndFormat(error) ==
  IF classifyErrorThrows(error) THEN Raised(ErrNotAFunction)
  ELSE LET r == createToolErrorFromStructured(classifyError(error))
       IN Returned(r.text, r.isError)

\* if (!tool) throw new McpError(MethodNotFound)
LookupFails(lookup) == lookup = "undefined"

GateOrder_validateFirst(tool, args, caps) ==
  LET issues == ZodIssues(tool.schema, args) IN
  IF issues # <<>>
  THEN Returned(ValidationHeader \o RenderIssues(issues), "true")
  ELSE IF CapabilityMissing(tool, caps)
  THEN Returned(getMissingEnvMessage(tool.capability), "true")
  ELSE Invoke

\* steps 2 and 3 of executeTool for a registered descriptor: the capability
\* gate, then schema.parse(args)
GateAndValidate(tool, args, caps) ==
  IF CapabilityMissing(tool, caps)
  THEN Returned(getMissingEnvMessage(tool.capability), "true")
  ELSE LET issues == ZodIssues(tool.schema, args) IN
       IF issues # <<>>
       THEN Returned(ValidationHeader \o RenderIssues(issues), "true")
       ELSE Invoke

\* executeTool up to the await of tool.handler(validatedParams): what it
\* returns or raises before that, or Invoke when it calls the handler
executeToolEntry(name, args, caps) ==
  LET lookup == RegistryLookup(name) IN
  IF LookupFails(lookup) THEN Raised(ErrMethodNotFound)
  ELSE IF lookup = "inherited" THEN ClassifyAndFormat(ErrParseOfUndefined)
  ELSE GateAndValidate(toolRegistry(name), args, caps)

\* tool.transformResponse(result).isError, absent without transformResponse
transformResponse(tool, text) ==
  IF tool.sentinel = NoText THEN "absent"
  ELSE IF Includes(text, tool.sentinel) THEN "true" ELSE "false"

\* step 5 of executeTool
executeToolShape(name, text) ==
  Returned(text, transformResponse(toolRegistry(name), text))

\* step 4's catch block
HandlerCatch(error) == ClassifyAndFormat(error)

RequestHandler_rethrowAll(exec) == exec

\* the try/catch of the CallToolRequestSchema handler around executeTool
RequestHandler(exec) ==
  IF exec.kind # "raised" THEN exec
  ELSE IF exec.error.tag = "McpError" THEN exec
  ELSE ClassifyAndFormat(exec.error)

\* the bodies a handler may return
Body(kind, text) == [kind |-> kind, text |-> text]

handleSearchReddit ==
  {Body("success", <<"#", "Reddit", "Search", "Results">>),
   Body("failure", <<"#", "CROSS", "search_reddit", ":", "Search", "Failed">>)}

handleGetRedditPosts ==
  {Body("success", <<"#", "Reddit", "Posts", "Summary", ":", "CROSS", "1", "failed">>),
   Body("failure", <<"#", "CROSS", "get_reddit_post", ":", "Operation", "Failed">>)}

handleDeepResearch ==
  {Body("success", <<"#", "Deep", "Research", "Results", "**", "CROSS", "Error", ":", "**">>),
   Body("failure", <<"#", "CROSS", "Error", "\n", "\n", "Failed", "to", "initialize">>)}

handleScrapeLinks ==
  {Body("success", <<"#", "Scraped", "Content">>),
   Body("failure", <<"#", "CROSS", "Scraping", "Failed">>)}

handleWebSearch ==
  {Body("success", <<"#", "Web", "Search", "Results">>),
   Body("failure", <<"#", "CROSS", "web_search", ":", "Search", "Failed">>)}

HandlerBodies(name) ==
  CASE name = "search_reddit" -> handleSearchReddit
    [] name = "get_reddit_post" -> handleGetRedditPosts
    [] name = "deep_research" -> handleDeepResearch
    [] name = "scrape_links" -> handleScrapeLinks
    [] name = "web_search" -> handleWebSearch

NoRequest == [name |-> "", args |-> [isObject |-> FALSE, items |-> "missing", len |-> 0, opt |-> "absent"]]
NoHandlerOutcome == [kind |-> "none", text |-> NoText, error |-> NoError]

\* provider calls one handler run may make in the model
MaxProviderCalls == 2

DispatchIdle ==
  /\ dpc = "idle"
  /\ request = NoRequest
  /\ handlerInvoked = FALSE
  /\ providerCalls = 0
  /\ handlerOutcome = NoHandlerOutcome
  /\ execOutcome = Pending
  /\ reply = Pending

\* a call-tool request arrives: the request handler calls executeTool, which
\* runs to its first await or to its end
CallToolRequest(name, args) ==
  /\ dpc = "idle"
  /\ LET e == executeToolEntry(name, args, capabilities) IN
     /\ request' = [name |-> name, args |-> args]
     /\ IF e.kind = "invoke"
        THEN /\ dpc' = "handler"
             /\ handlerInvoked' = TRUE
             /\ UNCHANGED <<execOutcome, reply>>
        ELSE /\ dpc' = "replied"
             /\ execOutcome' = e
             /\ reply' = RequestHandler(e)
             /\ UNCHANGED handlerInvoked
  /\ UNCHANGED <<capabilities, providerCalls, handlerOutcome>>
  /\ UNCHANGED notDispatch

\* the running handler calls a provider
ProviderCall ==
  /\ dpc = "handler"
  /\ providerCalls < MaxProviderCalls
  /\ providerCalls' = providerCalls + 1
  /\ UNCHANGED <<capabilities, dpc, request, handlerInvoked, handlerOutcome,
                 execOutcome, reply>>
  /\ UNCHANGED notDispatch

\* the handler's promise resolves with a body: step 5, then the request
\* handler returns what executeTool returned
HandlerReturns(body) ==
  /\ dpc = "handler"
  /\ body \in HandlerBodies(request.name)
  /\ handlerOutcome' = [kind |-> body.kind, text |-> body.text, error |-> NoError]
  /\ execOutcome' = executeToolShape(request.name, body.text)
  /\ reply' = RequestHandler(execOutcome')
  /\ dpc' = "replied"
  /\ UNCHANGED <<capabilities, request, handlerInvoked, providerCalls>>
  /\ UNCHANGED notDispatch

\* the handler's promise rejects: step 4's catch, then the request handler
HandlerThrows(error) ==
  /\ dpc = "handler"
  /\ handlerOutcome' = [kind |-> "threw", text |-> NoText, error |-> error]
  /\ execOutcome' = HandlerCatch(error)
  /\ reply' = RequestHandler(execOutcome')
  /\ dpc' = "replied"
  /\ UNCHANGED <<capabilities, request, handlerInvoked, providerCalls>>
  /\ UNCHANGED notDispatch

\* the reply is delivered; the server waits for the next request
NextRequest ==
  /\ dpc = "replied"
  /\ dpc' = "idle"
  /\ request' = NoRequest
  /\ handlerInvoked' = FALSE
  /\ providerCalls' = 0
  /\ handlerOutcome' = NoHandlerOutcome
  /\ execOutcome' = Pending
  /\ reply' = Pending
  /\ UNCHANGED capabilities
  /\ UNCHANGED notDispatch

----------------------------------------------------------------------------
(* Fan-out executors (tests/test-scrape-links.ts, clients/scraper.ts,      *)
(* services/llm-processor.ts)                                              *)

\* longest input sequence of the model
MaxInputs == 3

\* the pool's maxConcurrency parameter (default 30)
maxConcurrency == 2

\* SCRAPER.BATCH_SIZE
BATCH_SIZE == 2

\* the concurrency parameter of processMultipleWithLLM (default 3)
concurrency == 2

\* inputs; the task on an input settles the same way every time it is run
InputValues == {"ok1", "ok2", "throwsError", "throwsObject"}

\* how the task promise of an input settles
TaskOutcome(x) ==
  CASE x = "throwsError" -> [status |-> "rejected", reason |-> ErrBoom]
    [] x = "throwsObject" -> [status |-> "rejected", reason |-> ErrNumericMessage]
    [] OTHER -> [status |-> "fulfilled", reason |-> NoError]

\* the value a fulfilled task on x resolves with
TaskValue(x) == <<"result-of", x>>

InputSeqs == UNION {[1..n -> InputValues] : n \in 0..MaxInputs}

Unset == [url |-> "", kind |-> "unset", value |-> <<>>, code |-> "none"]
OkResult(x) == [url |-> x, kind |-> "ok", value |-> TaskValue(x), code |-> "none"]
ErrorResult(x, code) == [url |-> x, kind |-> "error", value |-> <<>>, code |-> code]

Min(a, b) == IF a < b THEN a ELSE b

FanoutIdle ==
  /\ executor = "none"
  /\ inputs = <<>>
  /\ fpc = "init"
  /\ nextIndex = 0
  /\ activeCount = 0
  /\ completedCount = 0
  /\ running = {}
  /\ settled = <<>>
  /\ results = <<>>
  /\ started = {}
  /\ completionOrder = <<>>

FanoutInit ==
  /\ executor \in {"pool", "batchScrape", "llm", "scrapeMultiple", "processBatchWithRetry"}
  /\ inputs \in InputSeqs
  /\ fpc = "init"
  /\ nextIndex = 0
  /\ activeCount = 0
  /\ completedCount = 0
  /\ running = {}
  /\ settled = [i \in 1..Len(inputs) |-> "pending"]
  /\ results = <<>>
  /\ started = {}
  /\ completionOrder = <<>>

RECURSIVE startNext_offByOne(_, _, _)
startNext_offByOne(ni, ac, n) ==
  IF ac <= maxConcurrency /\ ni < n
  THEN startNext_offByOne(ni + 1, ac + 1, n)
  ELSE <<ni, ac>>

\* the initial fill of startNext only: no slot is refilled afterwards
startNext_noRefill(ni, ac, n) ==
  IF ni = 0 /\ ac = 0 THEN <<Min(maxConcurrency, n), Min(maxConcurrency, n)>>
  ELSE <<ni, ac>>

RECURSIVE startNext(_, _, _)
\* the while loop of startNext: <<nextIndex, activeCount>> when it ends
startNext(ni, ac, n) ==
  IF ac < maxConcurrency /\ ni < n
  THEN startNext(ni + 1, ac + 1, n)
  ELSE <<ni, ac>>

ResultSlot_completionOrder(currentIndex, completed) == completed

\* results[currentIndex] = ...: the slot a finished task writes
ResultSlot(currentIndex, completed) == currentIndex

\* processWithConcurrencyPool: allocate results, kick off the initial batch
processWithConcurrencyPool ==
  /\ executor = "pool"
  /\ fpc = "init"
  /\ LET s == startNext(0, 0, Len(inputs)) IN
     /\ nextIndex' = s[1]
     /\ activeCount' = s[2]
     /\ running' = 0..(s[1] - 1)
     /\ started' = 0..(s[1] - 1)
  /\ results' = [i \in 1..Len(inputs) |-> Unset]
  /\ fpc' = "running"
  /\ UNCHANGED <<executor, inputs, completedCount, settled>>
  /\ UNCHANGED completionOrder
  /\ UNCHANGED notFanout

\* what both callbacks of a pool task do after writing their result
PoolAfterTask(i, r) ==
  /\ results' = [results EXCEPT ![ResultSlot(i, completedCount) + 1] = r]
  /\ completedCount' = completedCount + 1
  /\ IF completedCount + 1 = Len(inputs)
     THEN /\ fpc' = "resolved"
          /\ activeCount' = activeCount - 1
          /\ running' = running \ {i}
          /\ UNCHANGED <<nextIndex, started>>
     ELSE LET s == startNext(nextIndex, activeCount - 1, Len(inputs)) IN
          /\ nextIndex' = s[1]
          /\ activeCount' = s[2]
          /\ running' = (running \ {i}) \cup (nextIndex..(s[1] - 1))
          /\ started' = started \cup (nextIndex..(s[1] - 1))
          /\ UNCHANGED fpc
  /\ completionOrder' = Append(completionOrder, i)
  /\ UNCHANGED <<executor, inputs, settled>>
  /\ UNCHANGED notFanout

\* the .then callback of a pool task
PoolTaskFulfilled(i) ==
  /\ executor = "pool"
  /\ i \in running
  /\ TaskOutcome(inputs[i + 1]).status = "fulfilled"
  /\ PoolAfterTask(i, OkResult(inputs[i + 1]))

\* the .catch callback of a pool task
PoolTaskRejected(i) ==
  /\ executor = "pool"
  /\ i \in running
  /\ TaskOutcome(inputs[i + 1]).status = "rejected"
  /\ PoolAfterTask(i, ErrorResult(inputs[i + 1], "none"))

\* the indices of the batch that starts at index `from`, of `size` at most
BatchIndices(from, size, n) == from..(Min(from + size, n) - 1)

RECURSIVE CollectSettled(_, _, _)
\* the for loop over batchResults: one entry per settled task, in order
CollectSettled(from, to, urls) ==
  IF from > to THEN <<>>
  ELSE LET x == urls[from + 1]
           o == TaskOutcome(x)
           entry == IF o.status = "fulfilled" THEN OkResult(x)
                    ELSE ErrorResult(x, classifyError(o.reason).code)
       IN <<entry>> \o CollectSettled(from + 1, to, urls)

\* the executors that run their inputs batch by batch under
\* Promise.allSettled: batchScrape, scrapeMultiple (processBatch for one
\* batch, batchScrape for more) and processBatchWithRetry
BatchExecutors == {"batchScrape", "scrapeMultiple", "processBatchWithRetry"}

RECURSIVE CollectRetried(_, _, _)
\* the for loop over batchResults of processBatchWithRetry: every task is a
\* retryWithBackoff call, which resolves with success or with the failure
CollectRetried(from, to, items) ==
  IF from > to THEN <<>>
  ELSE LET x == items[from + 1]
           entry == IF TaskOutcome(x).status = "fulfilled" THEN OkResult(x)
                    ELSE ErrorResult(x, "none")
       IN <<entry>> \o CollectRetried(from + 1, to, items)

\* ScraperClient.scrapeMultiple up to its first await
scrapeMultiple ==
  /\ executor = "scrapeMultiple"
  /\ fpc = "init"
  /\ IF Len(inputs) = 0
     THEN /\ fpc' = "resolved"
          /\ UNCHANGED <<running, started>>
     ELSE /\ fpc' = "running"
          /\ running' = BatchIndices(0, BATCH_SIZE, Len(inputs))
          /\ started' = BatchIndices(0, BATCH_SIZE, Len(inputs))
  /\ UNCHANGED <<executor, inputs, nextIndex, activeCount, completedCount,
                 settled, results>>
  /\ UNCHANGED completionOrder
  /\ UNCHANGED notFanout

\* processBatchWithRetry (batchSize = BATCH_SIZE) up to its first await
processBatchWithRetry ==
  /\ executor = "processBatchWithRetry"
  /\ fpc = "init"
  /\ IF Len(inputs) = 0
     THEN /\ fpc' = "resolved"
          /\ UNCHANGED <<running, started>>
     ELSE /\ fpc' = "running"
          /\ running' = BatchIndices(0, BATCH_SIZE, Len(inputs))
          /\ started' = BatchIndices(0, BATCH_SIZE, Len(inputs))
  /\ UNCHANGED <<executor, inputs, nextIndex, activeCount, completedCount,
                 settled, results>>
  /\ UNCHANGED completionOrder
  /\ UNCHANGED notFanout

\* ScraperClient.batchScrape up to its first await
batchScrape ==
  /\ executor = "batchScrape"
  /\ fpc = "init"
  /\ IF Len(inputs) = 0
     THEN /\ fpc' = "resolved"
          /\ UNCHANGED <<running, started>>
     ELSE /\ fpc' = "running"
          /\ running' = BatchIndices(0, BATCH_SIZE, Len(inputs))
          /\ started' = BatchIndices(0, BATCH_SIZE, Len(inputs))
  /\ UNCHANGED <<executor, inputs, nextIndex, activeCount, completedCount,
                 settled, results>>
  /\ UNCHANGED completionOrder
  /\ UNCHANGED notFanout

\* a scrapeWithFallback promise of the current batch settles
BatchTaskSettles(i) ==
  /\ executor \in BatchExecutors
  /\ fpc = "running"
  /\ i \in running
  /\ settled' = [settled EXCEPT ![i + 1] = TaskOutcome(inputs[i + 1]).status]
  /\ running' = running \ {i}
  /\ UNCHANGED <<executor, inputs, fpc, nextIndex, activeCount, completedCount,
                 results, started>>
  /\ completionOrder' = Append(completionOrder, i)
  /\ UNCHANGED notFanout

\* Promise.allSettled resolved: collect the batch, then pause or return.
\* classifyError(result.reason) raising ends batchScrape with that exception.
BatchCollect ==
  /\ executor \in BatchExecutors
  /\ fpc = "running"
  /\ running = {}
  /\ LET batch == BatchIndices(nextIndex, BATCH_SIZE, Len(inputs))
         last == Min(nextIndex + BATCH_SIZE, Len(inputs)) - 1
     IN
     IF executor = "processBatchWithRetry"
     THEN /\ results' = results \o CollectRetried(nextIndex, last, inputs)
          /\ fpc' = IF nextIndex + BATCH_SIZE < Len(inputs) THEN "sleeping" ELSE "resolved"
     ELSE IF \E i \in batch :
          /\ TaskOutcome(inputs[i + 1]).status = "rejected"
          /\ classifyErrorThrows(TaskOutcome(inputs[i + 1]).reason)
     THEN /\ fpc' = "rejected"
          /\ UNCHANGED results
     ELSE /\ results' = results \o CollectSettled(nextIndex, last, inputs)
          /\ fpc' = IF nextIndex + BATCH_SIZE < Len(inputs) THEN "sleeping" ELSE "resolved"
  /\ UNCHANGED <<executor, inputs, nextIndex, activeCount, completedCount,
                 running, settled, started>>
  /\ UNCHANGED completionOrder
  /\ UNCHANGED notFanout

\* the pause between batches is over: the next batch starts
BatchSleepDone ==
  /\ executor \in BatchExecutors
  /\ fpc = "sleeping"
  /\ nextIndex' = nextIndex + BATCH_SIZE
  /\ running' = BatchIndices(nextIndex + BATCH_SIZE, BATCH_SIZE, Len(inputs))
  /\ started' = started \cup BatchIndices(nextIndex + BATCH_SIZE, BATCH_SIZE, Len(inputs))
  /\ fpc' = "running"
  /\ UNCHANGED <<executor, inputs, activeCount, completedCount, settled, results>>
  /\ UNCHANGED completionOrder
  /\ UNCHANGED notFanout

\* processMultipleWithLLM (use_llm set, processor present) up to its first
\* await
processMultipleWithLLM ==
  /\ executor = "llm"
  /\ fpc = "init"
  /\ IF Len(inputs) = 0
     THEN /\ fpc' = "resolved"
          /\ UNCHANGED <<running, started>>
     ELSE /\ fpc' = "running"
          /\ running' = BatchIndices(0, concurrency, Len(inputs))
          /\ started' = BatchIndices(0, concurrency, Len(inputs))
  /\ UNCHANGED <<executor, inputs, nextIndex, activeCount, completedCount,
                 settled, results>>
  /\ UNCHANGED completionOrder
  /\ UNCHANGED notFanout

\* a task of the current batch settles; Promise.all rejects on the first
\* rejection and the function ends with it, the other tasks still running
LLMTaskSettles(i) ==
  /\ executor = "llm"
  /\ fpc \in {"running", "rejected"}
  /\ i \in running
  /\ settled' = [settled EXCEPT ![i + 1] = TaskOutcome(inputs[i + 1]).status]
  /\ running' = running \ {i}
  /\ fpc' = IF TaskOutcome(inputs[i + 1]).status = "rejected" THEN "rejected" ELSE fpc
  /\ UNCHANGED <<executor, inputs, nextIndex, activeCount, completedCount,
                 results, started>>
  /\ completionOrder' = Append(completionOrder, i)
  /\ UNCHANGED notFanout

\* Promise.all resolved: results.push(...batchResults), then pause or return
LLMCollect ==
  /\ executor = "llm"
  /\ fpc = "running"
  /\ running = {}
  /\ results' = results \o
        [k \in 1..(Min(nextIndex + concurrency, Len(inputs)) - nextIndex) |->
           OkResult(inputs[nextIndex + k])]
  /\ fpc' = IF nextIndex + concurrency < Len(inputs) THEN "sleeping" ELSE "resolved"
  /\ UNCHANGED <<executor, inputs, nextIndex, activeCount, completedCount,
                 running, settled, started>>
  /\ UNCHANGED completionOrder
  /\ UNCHANGED notFanout

\* the pause between batches is over: the next batch starts
LLMSleepDone ==
  /\ executor = "llm"
  /\ fpc = "sleeping"
  /\ nextIndex' = nextIndex + concurrency
  /\ running' = BatchIndices(nextIndex + concurrency, concurrency, Len(inputs))
  /\ started' = started \cup BatchIndices(nextIndex + concurrency, concurrency, Len(inputs))
  /\ fpc' = "running"
  /\ UNCHANGED <<executor, inputs, activeCount, completedCount, settled, results>>
  /\ UNCHANGED completionOrder
  /\ UNCHANGED notFanout

----------------------------------------------------------------------------
(* Retry engines (utils/errors.ts withRetry, utils/retry.ts                *)
(* retryWithBackoff)                                                       *)

\* largest maxRetries of the model
MaxRetriesBound == 3

NoStructured == StructuredError("none", FALSE, 0)

Event(ev, n, error) == [ev |-> ev, attempt |-> n, error |-> error]

RetryIdle ==
  /\ engine = "none"
  /\ maxRetries = 0
  /\ rpc = "idle"
  /\ attempt = 0
  /\ calls = 0
  /\ sleeps = 0
  /\ lastFailure = NoError
  /\ retryResult = [success |-> FALSE, error |-> NoError, structured |-> NoStructured,
                    attempts |-> 0]
  /\ history = <<>>
  /\ cancelRequested = Undefined

RetryInit ==
  /\ engine \in {"withRetry", "retryWithBackoff"}
  /\ maxRetries \in 0..MaxRetriesBound
  /\ rpc = "idle"
  /\ attempt = 0
  /\ calls = 0
  /\ sleeps = 0
  /\ lastFailure = NoError
  /\ retryResult = [success |-> FALSE, error |-> NoError, structured |-> NoStructured,
                    attempts |-> 0]
  /\ history = <<>>
  /\ cancelRequested = Undefined

\* the loop condition: attempt <= opts.maxRetries in withRetry,
\* attempt < fullConfig.maxRetries in retryWithBackoff
LoopContinues(eng, n, m) == IF eng = "withRetry" THEN n <= m ELSE n < m

\* retryWithBackoff: lastError = error instanceof Error ? error
\*                               : new Error(String(error)); its message
WrappedMessage(e) ==
  IF e.tag \in {"Error", "DOMAbort", "McpError"} THEN e.words ELSE StringOf(e)

\* retryWithBackoff's default predicate (no shouldRetry option)
is429(e) ==
  LET m == WrappedMessage(e) IN
  \/ Includes(m, <<"429">>)
  \/ Includes(toLowerCase(m), <<"rate", "limit">>)
  \/ Includes(toLowerCase(m), <<"too", "many", "requests">>)

withRetryOnFailure_ignoreRetryable(e, n, m) ==
  IF classifyErrorThrows(e) THEN "raise"
  ELSE IF n >= m THEN "return"
  ELSE "sleep"

withRetryOnFailure_noCap(e, n, m) ==
  IF classifyErrorThrows(e) THEN "raise"
  ELSE IF ~classifyError(e).retryable THEN "return"
  ELSE "sleep"

\* the catch block of withRetry: "raise" (classifyError raised), "return"
\* (result returned now) or "sleep" (back off, then the next attempt)
withRetryOnFailure(e, n, m) ==
  IF classifyErrorThrows(e) THEN "raise"
  ELSE IF ~classifyError(e).retryable THEN "return"
  ELSE IF n >= m THEN "return"
  ELSE "sleep"

\* the catch block of retryWithBackoff; after a retryable failure on the
\* last attempt the loop ends and the function returns the failure
retryWithBackoffOnFailure(e, n, m) ==
  IF ~is429(e) THEN "return"
  ELSE IF n < m - 1 THEN "sleep"
  ELSE "return"

OnFailure(eng, e, n, m) ==
  IF eng = "withRetry" THEN withRetryOnFailure(e, n, m)
  ELSE retryWithBackoffOnFailure(e, n, m)

\* the engine is called: the first attempt starts, unless the loop does not
\* run at all
RetryCall ==
  /\ rpc = "idle"
  /\ engine # "none"
  /\ attempt' = 0
  /\ IF LoopContinues(engine, 0, maxRetries)
     THEN /\ rpc' = "attempt"
          /\ calls' = 1
          /\ history' = <<Event("call", 0, NoError)>>
          /\ UNCHANGED retryResult
     ELSE /\ rpc' = "done"
          /\ calls' = 0
          /\ history' = <<Event("return", 0, NoError)>>
          /\ retryResult' = [success |-> FALSE, error |-> NoError,
                             structured |-> NoStructured, attempts |-> maxRetries]
  /\ UNCHANGED <<engine, maxRetries, sleeps, lastFailure>>
  /\ UNCHANGED cancelRequested
  /\ UNCHANGED notRetry

\* fn resolves: the engine returns the value
FnResolves ==
  /\ rpc = "attempt"
  /\ rpc' = "done"
  /\ retryResult' = [success |-> TRUE, error |-> NoError, structured |-> NoStructured,
                     attempts |-> attempt + 1]
  /\ history' = Append(history, Event("return", attempt, NoError))
  /\ UNCHANGED <<engine, maxRetries, attempt, calls, sleeps, lastFailure>>
  /\ UNCHANGED cancelRequested
  /\ UNCHANGED notRetry

\* fn rejects with e: the catch block
FnRejects(e) ==
  /\ rpc = "attempt"
  /\ LET d == OnFailure(engine, e, attempt, maxRetries)
         structured == IF engine = "withRetry" /\ ~classifyErrorThrows(e)
                       THEN classifyError(e) ELSE NoStructured
     IN
     /\ lastFailure' = e
     /\ CASE d = "raise" ->
               /\ rpc' = "raised"
               /\ history' = history \o <<Event("fail", attempt, e), Event("raise", attempt, e)>>
               /\ UNCHANGED <<sleeps, retryResult>>
          [] d = "return" ->
               /\ rpc' = "done"
               /\ history' = history \o <<Event("fail", attempt, e), Event("return", attempt, e)>>
               /\ retryResult' = [success |-> FALSE, error |-> e, structured |-> structured,
                                  attempts |-> attempt + 1]
               /\ UNCHANGED sleeps
          [] d = "sleep" ->
               /\ rpc' = "sleep"
               /\ history' = history \o <<Event("fail", attempt, e), Event("sleep", attempt, e)>>
               /\ sleeps' = sleeps + 1
               /\ UNCHANGED retryResult
  /\ UNCHANGED <<engine, maxRetries, attempt, calls>>
  /\ UNCHANGED cancelRequested
  /\ UNCHANGED notRetry

\* the backoff sleep ends: attempt++ and fn is invoked again
SleepElapsed ==
  /\ rpc = "sleep"
  /\ attempt' = attempt + 1
  /\ calls' = calls + 1
  /\ rpc' = "attempt"
  /\ history' = Append(history, Event("call", attempt + 1, NoError))
  /\ UNCHANGED <<engine, maxRetries, sleeps, lastFailure, retryResult>>
  /\ UNCHANGED cancelRequested
  /\ UNCHANGED notRetry

\* sleep(ms, signal) when a cancellation fires before the timer: the abort
\* listener rejects the promise if a signal was passed; without one only the
\* timer can settle it
sleep(signalPassed) == IF signalPassed THEN "rejected" ELSE "resolved"

\* whether the engine passes a signal to its sleep: withRetry calls
\* sleep(delayMs), retryWithBackoff calls delay(delayMs)
SleepSignalPassed(eng) == FALSE

\* a cancellation signal fires while the engine sleeps
CancelFires ==
  /\ rpc = "sleep"
  /\ ~cancelRequested.given
  /\ cancelRequested' = Given(calls)
  /\ IF sleep(SleepSignalPassed(engine)) = "rejected"
     THEN /\ rpc' = "done"
          /\ retryResult' = [success |-> FALSE, error |-> lastFailure,
                             structured |-> classifyError(lastFailure),
                             attempts |-> attempt + 1]
          /\ history' = Append(history, Event("return", attempt, lastFailure))
     ELSE UNCHANGED <<rpc, retryResult, history>>
  /\ UNCHANGED <<engine, maxRetries, attempt, calls, sleeps, lastFailure>>
  /\ UNCHANGED notRetry

----------------------------------------------------------------------------
(* Pure functions: the classifier, the backoff calculators, the allocators *)

NoCall == [fn |-> "none"]
NoReturn == [kind |-> "none"]
PureReturned(v) == [kind |-> "returned", value |-> v]
PureRaised(e) == [kind |-> "raised", error |-> e]

PureIdle ==
  /\ pcall = NoCall
  /\ pret = NoReturn

\* message texts of thrown values
Messages ==
  {<<>>, <<"boom">>, <<"Request", "Timeout">>, <<"connection", "timed", "out">>,
   <<"Invalid", "API", "key">>, <<"Unexpected", "token", "<">>,
   <<"missing", "api_key">>, <<"missing", "api", "key">>, <<"bad", "JSON", "API_KEY">>}

\* HTTP statuses a thrown value may carry (0: none)
Statuses == {0, 400, 401, 403, 404, 408, 418, 429, 500, 502, 503, 504, 510, 599}

\* the values classifyError(error: unknown) may be given: null / undefined,
\* a DOMException AbortError, primitives (a string, a number) and Error
\* instances or plain objects whose fields have any type
ClassifyInputs ==
  {ErrNull, ErrAbort, Err("number", "undefined", <<>>, "none", "none", 0)}
  \cup {Err("string", "undefined", w, "none", "none", 0) : w \in Messages}
  \cup [tag : {"Error", "object"}, msgType : {"undefined", "string", "number"},
        words : Messages, code : {"none", "ECONNRESET", "ETIMEDOUT"},
        name : {"Error", "AbortError"}, status : Statuses]

\* ErrorCode
ErrorCodes ==
  {"RATE_LIMITED", "TIMEOUT", "NETWORK_ERROR", "SERVICE_UNAVAILABLE", "AUTH_ERROR",
   "INVALID_INPUT", "NOT_FOUND", "QUOTA_EXCEEDED", "INTERNAL_ERROR", "PARSE_ERROR",
   "UNKNOWN_ERROR"}

\* classifyError(error) is applied
ClassifyErrorCall(e) ==
  /\ pcall = NoCall
  /\ pcall' = [fn |-> "classifyError", error |-> e]
  /\ pret' = IF classifyErrorThrows(e) THEN PureRaised(ErrNotAFunction)
             ELSE PureReturned(classifyError(e))
  /\ UNCHANGED notPure

\* largest attempt index given to the backoff calculators
MaxAttemptIndex == 5

\* Math.random() in [0, 1), in tenths
RandomTenths == 0..9

RECURSIVE Pow(_, _)
\* Math.pow(b, n) for a natural n
Pow(b, n) == IF n = 0 THEN 1 ELSE b * Pow(b, n - 1)

\* RetryOptions of withRetry: delays in milliseconds, multiples of 100
BackoffOptions == [baseDelayMs : {100, 1000}, maxDelayMs : {1000, 30000}]

\* RetryConfig of retryWithBackoff
DelayConfigs ==
  [initialDelayMs : {100, 500}, maxDelayMs : {1000, 10000}, multiplier : {2, 3}]

calculateBackoff_noClip(att, options, random) ==
  LET exponentialDelay == options.baseDelayMs * Pow(2, att)
  IN exponentialDelay + (random * 3 * exponentialDelay) \div 100

\* calculateBackoff(attempt, options), Math.random() having returned
\* random / 10
calculateBackoff(att, options, random) ==
  LET exponentialDelay == options.baseDelayMs * Pow(2, att)
      jitter == (random * 3 * exponentialDelay) \div 100
  IN Min(exponentialDelay + jitter, options.maxDelayMs)

\* calculateDelay(attempt, config)
calculateDelay(att, config) ==
  LET delay == config.initialDelayMs * Pow(config.multiplier, att)
  IN Min(delay, config.maxDelayMs)

\* calculateBackoff(attempt, opts) is applied
CalculateBackoffCall(att, options, random) ==
  /\ pcall = NoCall
  /\ pcall' = [fn |-> "calculateBackoff", attempt |-> att, options |-> options,
               random |-> random]
  /\ pret' = PureReturned(calculateBackoff(att, options, random))
  /\ UNCHANGED notPure

\* calculateDelay(attempt, fullConfig) is applied
CalculateDelayCall(att, config) ==
  /\ pcall = NoCall
  /\ pcall' = [fn |-> "calculateDelay", attempt |-> att, config |-> config]
  /\ pret' = PureReturned(calculateDelay(att, config))
  /\ UNCHANGED notPure

\* TOTAL_TOKEN_BUDGET of tools/research.ts
TOTAL_TOKEN_BUDGET == 32000

\* largest item count given to the allocators
MaxCount == 12

\* budgets given to calculateTokenAllocation of tools/utils.ts
Budgets == {0, 7, 1000, TOTAL_TOKEN_BUDGET}

calculateTokenAllocation_ceil(count, budget) ==
  IF count <= 0 THEN budget ELSE (budget + count - 1) \div count

\* calculateTokenAllocation(count, budget); Math.floor of a quotient of
\* naturals is integer division
calculateTokenAllocation(count, budget) ==
  IF count <= 0 THEN budget ELSE budget \div count

\* calculateTokenAllocation of tools/utils.ts is applied
CalculateTokenAllocationCall(count, budget) ==
  /\ pcall = NoCall
  /\ pcall' = [fn |-> "calculateTokenAllocation", count |-> count, budget |-> budget]
  /\ pret' = PureReturned(calculateTokenAllocation(count, budget))
  /\ UNCHANGED notPure

\* calculateTokenAllocation(questionCount) of tools/research.ts is applied
ResearchTokenAllocationCall(questionCount) ==
  /\ pcall = NoCall
  /\ pcall' = [fn |-> "calculateTokenAllocation", count |-> questionCount,
               budget |-> TOTAL_TOKEN_BUDGET]
  /\ pret' = PureReturned(calculateTokenAllocation(questionCount, TOTAL_TOKEN_BUDGET))
  /\ UNCHANGED notPure

\* REDDIT.MAX_COMMENT_BUDGET and the per-post request ceiling
MAX_COMMENT_BUDGET == 1000
MAX_COMMENTS_PER_POST == 500

\* calculateCommentAllocation(postCount)
calculateCommentAllocation(postCount) ==
  LET perPost == IF postCount <= 0 THEN MAX_COMMENT_BUDGET
                 ELSE MAX_COMMENT_BUDGET \div postCount
  IN [perPostUncapped |-> perPost,
      perPostCapped |-> Min(perPost, MAX_COMMENTS_PER_POST)]

\* the max_comments values of a request
MaxCommentsValues == {Undefined} \cup {Given(v) : v \in {0, 50, 100, 500, 1000}}

\* z.number().default(100)
MaxCommentsParsed(v) == IF v.given THEN v.value ELSE 100

\* getRedditPostHandler: p.max_comments !== 100 ? p.max_comments : undefined
maxCommentsOverride(max_comments) ==
  IF max_comments # 100 THEN Given(max_comments) ELSE Undefined

\* JavaScript truthiness of a number or undefined
Truthy(v) == v.given /\ v.value # 0

commentsPerPost_maxComments(fetchComments, override, allocation) ==
  IF ~fetchComments THEN 0
  ELSE IF Truthy(override) THEN override.value
  ELSE 100

\* fetchComments ? (maxCommentsOverride || allocation.perPostCapped) : 0
commentsPerPost(fetchComments, override, allocation) ==
  IF ~fetchComments THEN 0
  ELSE IF Truthy(override) THEN override.value
  ELSE allocation.perPostCapped

\* get_reddit_post over n urls: the wrapper and the handler up to the call
\* client.batchGetPosts(urls, commentsPerPost, fetchComments)
GetRedditPostCall(n, max_comments, fetch_comments) ==
  /\ pcall = NoCall
  /\ pcall' = [fn |-> "handleGetRedditPosts", n |-> n, max_comments |-> max_comments,
               fetch_comments |-> fetch_comments]
  /\ pret' = PureReturned(
               commentsPerPost(fetch_comments,
                               maxCommentsOverride(MaxCommentsParsed(max_comments)),
                               calculateCommentAllocation(n)))
  /\ UNCHANGED notPure

\* longest input list given to the multi-input adapter operations
MaxKeys == 3

\* keyword / query / url lists, duplicates included
KeyLists == UNION {[1..n -> {"a", "b"}] : n \in 0..MaxKeys}

\* new Map(keys.map((k, i) => [k, values[i]])): one entry per distinct key,
\* a later pair replacing an earlier one with the same key
NewMap(keys, values) ==
  [k \in {keys[i] : i \in 1..Len(keys)} |->
     values[CHOOSE i \in 1..Len(keys) :
              keys[i] = k /\ \A j \in 1..Len(keys) : keys[j] = k => j <= i]]

\* what the adapter made of input i
ResultOf(i) == <<"result-of", i>>

\* the `searches` of searchMultiple when the provider answered 200 with a
\* JSON array of n entries: responses.map((resp, index) => ({keyword:
\* keywords[index] || '', ...}))
searchMultipleSearches(keywords, n) ==
  [index \in 1..n |->
     [keyword |-> IF index <= Len(keywords) THEN keywords[index] ELSE "",
      results |-> ResultOf(index)]]

\* searchMultiple(keywords) is applied, the provider answering with n entries
SearchMultipleCall(keywords, n) ==
  /\ pcall = NoCall
  /\ Len(keywords) > 0
  /\ pcall' = [fn |-> "searchMultiple", inputs |-> keywords, entries |-> n]
  /\ pret' = PureReturned(searchMultipleSearches(keywords, n))
  /\ UNCHANGED notPure

\* searchRedditMultiple(queries) is applied, every searchReddit returning
SearchRedditMultipleCall(queries) ==
  /\ pcall = NoCall
  /\ pcall' = [fn |-> "searchRedditMultiple", inputs |-> queries]
  /\ pret' = PureReturned(NewMap(queries, [i \in 1..Len(queries) |-> ResultOf(i)]))
  /\ UNCHANGED notPure

\* RedditClient.getPosts(urls) is applied, every getPost settling
GetPostsCall(us) ==
  /\ pcall = NoCall
  /\ pcall' = [fn |-> "getPosts", inputs |-> us]
  /\ pret' = PureReturned(NewMap(us, [i \in 1..Len(us) |-> ResultOf(i)]))
  /\ UNCHANGED notPure

\* most nodes of a comment listing in the model
MaxNodes == 3

\* what a child of a listing is: a comment with an author, a comment whose
\* author is '[deleted]', a comment without author, a 'more' stub
NodeStates == {"ok", "deleted", "missing", "more"}

\* a listing of n nodes: node i hangs under parent[i] (0: top level), the
\* children of a node standing in the order of their numbers
Listings ==
  UNION {[parent : {f \in [1..n -> 0..n] : \A i \in 1..n : f[i] < i},
          state : [1..n -> NodeStates],
          score : [1..n -> {1, 2}]] : n \in 0..MaxNodes}

RECURSIVE ChildrenFrom(_, _, _)
\* the children array of node p (0: the listing itself), from node i on
ChildrenFrom(t, p, i) ==
  IF i > Len(t.parent) THEN <<>>
  ELSE IF t.parent[i] = p THEN <<i>> \o ChildrenFrom(t, p, i + 1)
  ELSE ChildrenFrom(t, p, i + 1)

RECURSIVE InsertByScore(_, _, _)
\* x put behind every element of the sorted sequence whose score is not
\* smaller
InsertByScore(t, x, sorted) ==
  IF sorted = <<>> THEN <<x>>
  ELSE IF t.score[Head(sorted)] >= t.score[x]
  THEN <<Head(sorted)>> \o InsertByScore(t, x, Tail(sorted))
  ELSE <<x>> \o sorted

RECURSIVE SortByScore(_, _, _)
\* [...children].sort((a, b) => b.score - a.score): descending and stable;
\* acc holds the elements sorted so far
SortByScore(t, children, acc) ==
  IF children = <<>> THEN acc
  ELSE SortByScore(t, Tail(children), InsertByScore(t, Head(children), acc))

\* the Comment pushed for node c
CommentOf(t, c, depth) == [id |-> c, score |-> t.score[c], depth |-> depth]

RECURSIVE extract_keepDeleted(_, _, _, _, _)
extract_keepDeleted(t, sorted, depth, comments, maxComments) ==
  IF sorted = <<>> THEN comments
  ELSE IF Len(comments) >= maxComments THEN comments
  ELSE LET c == Head(sorted) IN
       IF t.state[c] \in {"more", "missing"}
       THEN extract_keepDeleted(t, Tail(sorted), depth, comments, maxComments)
       ELSE LET pushed == Append(comments, CommentOf(t, c, depth))
                withReplies ==
                  IF ChildrenFrom(t, c, 1) # <<>> /\ Len(pushed) < maxComments
                  THEN extract_keepDeleted(t, SortByScore(t, ChildrenFrom(t, c, 1), <<>>),
                                           depth + 1, pushed, maxComments)
                  ELSE pushed
            IN extract_keepDeleted(t, Tail(sorted), depth, withReplies, maxComments)

RECURSIVE extract(_, _, _, _, _)
\* the for loop of extract over the sorted children, from `sorted` on, with
\* the comments collected so far
extract(t, sorted, depth, comments, maxComments) ==
  IF sorted = <<>> THEN comments
  ELSE IF Len(comments) >= maxComments THEN comments
  ELSE LET c == Head(sorted) IN
       IF t.state[c] # "ok"
       THEN extract(t, Tail(sorted), depth, comments, maxComments)
       ELSE LET pushed == Append(comments, CommentOf(t, c, depth))
                withReplies ==
                  IF ChildrenFrom(t, c, 1) # <<>> /\ Len(pushed) < maxComments
                  THEN extract(t, SortByScore(t, ChildrenFrom(t, c, 1), <<>>),
                               depth + 1, pushed, maxComments)
                  ELSE pushed
            IN extract(t, Tail(sorted), depth, withReplies, maxComments)

\* getPost(url, maxComments) is applied to a post whose comment listing is t
GetPostCommentsCall(t, maxComments) ==
  /\ pcall = NoCall
  /\ pcall' = [fn |-> "getPost", listing |-> t, maxComments |-> maxComments]
  /\ pret' = PureReturned(
               extract(t, SortByScore(t, ChildrenFrom(t, 0, 1), <<>>), 0, <<>>, maxComments))
  /\ UNCHANGED notPure

\* the caller has the value; the next application may start
PureDone ==
  /\ pcall # NoCall
  /\ pcall' = NoCall
  /\ pret' = NoReturn
  /\ UNCHANGED notPure

----------------------------------------------------------------------------
(* ScraperClient.scrape and scrapeWithFallback (clients/scraper.ts)        *)

\* the attempts array of scrapeWithFallback
Ladder ==
  <<[mode |-> "basic", country |-> "none"],
    [mode |-> "javascript", country |-> "none"],
    [mode |-> "javascript", country |-> "us"]>>

\* what the provider does to the requests of one mode, the same on every
\* retry: answer with an HTTP status, or make fetch throw
ProviderBehaviours ==
  [kind : {"status"}, status : {200, 400, 401, 403, 404, 418, 429, 500}, error : {NoError}]
  \cup [kind : {"throws"}, status : {0}, error : {ErrConnReset, ErrBoom}]

\* a ScrapeResponse; error.code = "none" when it has no error field
ScrapeResponse(statusCode, error) == [statusCode |-> statusCode, error |-> error]
NoScrapeResponse == ScrapeResponse(0, NoStructured)
HasError(r) == r.error.code # "none"

\* PERMANENT_FAILURE_CODES
PERMANENT_FAILURE_CODES == {400, 401, 403}

\* how one scrape call ended
ScrapeReturned(r) == [kind |-> "returned", response |-> r]
ScrapeThrew == [kind |-> "threw", response |-> NoScrapeResponse]

\* ScraperClient.scrape of part_006 (maxRetries >= 1) against a provider
\* behaviour: the response it returns once its retries are over
scrape(b) ==
  IF b.kind = "status"
  THEN IF b.status >= 200 /\ b.status < 300
       THEN ScrapeReturned(ScrapeResponse(b.status, NoStructured))
       ELSE IF b.status = 404
       THEN ScrapeReturned(ScrapeResponse(404, NoStructured))
       ELSE IF b.status \in PERMANENT_FAILURE_CODES
       THEN ScrapeReturned(ScrapeResponse(b.status,
              StructuredError(IF b.status = 401 THEN "AUTH_ERROR" ELSE "INVALID_INPUT",
                              FALSE, b.status)))
       ELSE ScrapeReturned(ScrapeResponse(b.status,
              classifyError(Err("object", "string", <<"body">>, "none", "none", b.status))))
  ELSE LET lastError == classifyError(b.error)
       IN ScrapeReturned(ScrapeResponse(
            IF lastError.statusCode # 0 THEN lastError.statusCode ELSE 500, lastError))

\* ScraperClient.scrape of the older clients/scraper.ts: it returns on 2xx
\* and 404 and throws an Error for everything else
scrapeLegacy(b) ==
  IF b.kind = "status" /\ b.status >= 200 /\ b.status < 300
  THEN ScrapeReturned(ScrapeResponse(b.status, NoStructured))
  ELSE IF b.kind = "status" /\ b.status = 404
  THEN ScrapeReturned(ScrapeResponse(404, NoStructured))
  ELSE ScrapeThrew

FallbackDecision_advanceOn404(outcome) ==
  LET result == outcome.response IN
  IF result.statusCode >= 200 /\ result.statusCode < 300 /\ ~HasError(result) THEN "return"
  ELSE IF HasError(result) /\ ~result.error.retryable THEN "return"
  ELSE "next"

\* the body of the for loop of scrapeWithFallback (part_006) after scrape
\* returned: "return" the result or go to the "next" mode
FallbackDecision(outcome) ==
  LET result == outcome.response IN
  IF result.statusCode >= 200 /\ result.statusCode < 300 /\ ~HasError(result) THEN "return"
  ELSE IF result.statusCode = 404 THEN "return"
  ELSE IF HasError(result) /\ ~result.error.retryable THEN "return"
  ELSE "next"

\* the same in the older clients/scraper.ts: the try block returns on 2xx
\* and 404; the catch block records the message and goes on
FallbackDecisionLegacy(outcome) ==
  IF outcome.kind = "threw" THEN "next"
  ELSE IF outcome.response.statusCode >= 200 /\ outcome.response.statusCode < 300 THEN "return"
  ELSE IF outcome.response.statusCode = 404 THEN "return"
  ELSE "next"

ScrapeIdle ==
  /\ client = "none"
  /\ behaviour = <<>>
  /\ spc = "idle"
  /\ modeIdx = 0
  /\ attempted = <<>>
  /\ fallbackResult = NoScrapeResponse

ScrapeInit ==
  /\ client \in {"current", "legacy"}
  /\ behaviour \in [1..Len(Ladder) -> ProviderBehaviours]
  /\ spc = "init"
  /\ modeIdx = 0
  /\ attempted = <<>>
  /\ fallbackResult = NoScrapeResponse

\* scrapeWithFallback(url) is called: the first mode is scraped
scrapeWithFallback ==
  /\ spc = "init"
  /\ spc' = "running"
  /\ modeIdx' = 1
  /\ UNCHANGED <<client, behaviour, attempted, fallbackResult>>
  /\ UNCHANGED notScrape

\* this.scrape(...) of the current mode settles and the loop body runs
\* (part_006)
ScrapeModeSettles ==
  /\ spc = "running"
  /\ client = "current"
  /\ LET outcome == scrape(behaviour[modeIdx])
         d == FallbackDecision(outcome)
     IN /\ attempted' = Append(attempted, [mode |-> Ladder[modeIdx], outcome |-> outcome])
        /\ IF d = "return"
           THEN /\ spc' = "returned"
                /\ fallbackResult' = outcome.response
                /\ UNCHANGED modeIdx
           ELSE IF modeIdx < Len(Ladder)
           THEN /\ modeIdx' = modeIdx + 1
                /\ UNCHANGED <<spc, fallbackResult>>
           ELSE /\ spc' = "returned"
                /\ fallbackResult' =
                     ScrapeResponse(IF outcome.response.statusCode # 0
                                    THEN outcome.response.statusCode ELSE 500,
                                    StructuredError("SERVICE_UNAVAILABLE", FALSE, 0))
                /\ UNCHANGED modeIdx
  /\ UNCHANGED <<client, behaviour>>
  /\ UNCHANGED notScrape

\* the same step in the older clients/scraper.ts; after the last mode it
\* throws
ScrapeModeSettlesLegacy ==
  /\ spc = "running"
  /\ client = "legacy"
  /\ LET outcome == scrapeLegacy(behaviour[modeIdx])
         d == FallbackDecisionLegacy(outcome)
     IN /\ attempted' = Append(attempted, [mode |-> Ladder[modeIdx], outcome |-> outcome])
        /\ IF d = "return"
           THEN /\ spc' = "returned"
                /\ fallbackResult' = outcome.response
                /\ UNCHANGED modeIdx
           ELSE IF modeIdx < Len(Ladder)
           THEN /\ modeIdx' = modeIdx + 1
                /\ UNCHANGED <<spc, fallbackResult>>
           ELSE /\ spc' = "rejected"
                /\ UNCHANGED <<modeIdx, fallbackResult>>
  /\ UNCHANGED <<client, behaviour>>
  /\ UNCHANGED notScrape

----------------------------------------------------------------------------
(* Search adapters: SearchClient (clients/search.ts, part_005) and the     *)
(* older SerperClient (part_004)                                           *)

\* SEARCH_RETRY_CONFIG
SEARCH_RETRY_CONFIG == [maxRetries |-> 2]

\* RETRYABLE_SEARCH_CODES
RETRYABLE_SEARCH_CODES == {429, 500, 502, 503, 504}

\* largest number of keywords / queries of one call
MaxQueries == 2

\* requests one call can make: one per attempt, or one per query
SearchSlots ==
  IF MaxQueries > SEARCH_RETRY_CONFIG.maxRetries + 1
  THEN MaxQueries ELSE SEARCH_RETRY_CONFIG.maxRetries + 1

\* what the provider does to one request: answer with a status and, on 200,
\* a body with `organic` results; answer 200 with a body that is not JSON;
\* or make fetch throw
SearchReplies ==
  [kind : {"status"}, status : {200}, organic : {0, 1}, error : {ErrNull}]
  \cup [kind : {"status"}, status : {401, 408, 429, 500}, organic : {0}, error : {ErrNull}]
  \cup [kind : {"badjson"}, status : {200}, organic : {0}, error : {ErrNull}]
  \cup [kind : {"throws"}, status : {0}, organic : {0},
        error : {ErrTimeoutMsg, ErrBoom, ErrConnReset, ErrAbort}]

\* SearchClient.isRetryable(status, error)
isRetryable(status, e) ==
  \/ status \in RETRYABLE_SEARCH_CODES
  \/ LET message == IF e.msgType = "string" THEN toLowerCase(e.words) ELSE <<>>
     IN \/ Includes(message, <<"timeout">>)
        \/ Includes(message, <<"rate", "limit">>)
        \/ Includes(message, <<"connection">>)

\* one response of a search operation: the number of results in it and its
\* error field (code "none": the response has no error field)
SearchResponse(count, error) == [count |-> count, error |-> error]

\* go round the retry loop again / return the response
SearchRetry == [next |-> "retry", response |-> SearchResponse(0, NoStructured)]
SearchReturn(r) == [next |-> "return", response |-> r]

\* one iteration of the retry loop of SearchClient.searchMultiple, for the
\* provider reply r
searchMultipleStep(r, att) ==
  IF r.kind = "status" /\ r.status # 200
  THEN LET lastError ==
             classifyError(Err("object", "string", <<"body">>, "none", "none", r.status))
       IN IF isRetryable(r.status, ErrNull) /\ att < SEARCH_RETRY_CONFIG.maxRetries
          THEN SearchRetry
          ELSE SearchReturn(SearchResponse(0, lastError))
  ELSE IF r.kind = "badjson"
  THEN SearchReturn(SearchResponse(0, StructuredError("PARSE_ERROR", FALSE, 0)))
  ELSE IF r.kind = "status"
  THEN SearchReturn(SearchResponse(r.organic, NoStructured))
  ELSE LET lastError == classifyError(r.error)
       IN IF isRetryable(0, r.error) /\ att < SEARCH_RETRY_CONFIG.maxRetries
          THEN SearchRetry
          ELSE SearchReturn(SearchResponse(0, lastError))

\* one iteration of the retry loop of SearchClient.searchReddit
searchRedditStep(r, att) ==
  IF r.kind = "status" /\ r.status # 200
  THEN IF isRetryable(r.status, ErrNull) /\ att < SEARCH_RETRY_CONFIG.maxRetries
       THEN SearchRetry
       ELSE SearchReturn(SearchResponse(0, NoStructured))
  ELSE IF r.kind = "status"
  THEN SearchReturn(SearchResponse(r.organic, NoStructured))
  ELSE LET error == IF r.kind = "badjson"
                    THEN Err("Error", "string", <<"Unexpected", "token">>,
                             "none", "SyntaxError", 0)
                    ELSE r.error
       IN IF isRetryable(0, error) /\ att < SEARCH_RETRY_CONFIG.maxRetries
          THEN SearchRetry
          ELSE SearchReturn(SearchResponse(0, NoStructured))

\* SerperClient.search(q).catch(() => []) for the provider reply r
searchOrEmpty(r) ==
  IF r.kind = "status" /\ r.status = 200
  THEN SearchResponse(r.organic, NoStructured)
  ELSE SearchResponse(0, NoStructured)

SearchIdle ==
  /\ searchOp = "none"
  /\ searchCount = 0
  /\ searchReplies = <<>>
  /\ searchAttempt = 0
  /\ searchPending = {}
  /\ searchResult = <<>>
  /\ qpc = "idle"

SearchInit ==
  /\ searchOp \in {"searchMultiple", "searchReddit", "searchMany"}
  /\ searchCount \in 0..MaxQueries
  /\ searchReplies \in [1..SearchSlots -> SearchReplies]
  /\ searchAttempt = 0
  /\ searchPending = {}
  /\ searchResult = <<>>
  /\ qpc = "init"

\* the operation is called: the guard clauses run and the first request
\* (searchMany: one request per query) is sent
SearchCall ==
  /\ qpc = "init"
  /\ IF searchOp = "searchMultiple" /\ searchCount = 0
     THEN /\ searchResult' =
               <<SearchResponse(0, StructuredError("INVALID_INPUT", FALSE, 0))>>
          /\ qpc' = "done"
          /\ UNCHANGED searchPending
     ELSE IF searchOp = "searchReddit" /\ searchCount = 0
     THEN /\ searchResult' = <<SearchResponse(0, NoStructured)>>
          /\ qpc' = "done"
          /\ UNCHANGED searchPending
     ELSE IF searchOp = "searchMany"
     THEN /\ searchPending' = 1..searchCount
          /\ searchResult' = [i \in 1..searchCount |-> SearchResponse(0, NoStructured)]
          /\ qpc' = IF searchCount = 0 THEN "done" ELSE "fetching"
     ELSE /\ qpc' = "fetching"
          /\ UNCHANGED <<searchPending, searchResult>>
  /\ UNCHANGED <<searchOp, searchCount, searchReplies, searchAttempt>>
  /\ UNCHANGED notSearch

\* searchMultiple: the request of this attempt settles
SearchMultipleAttemptSettles ==
  /\ qpc = "fetching"
  /\ searchOp = "searchMultiple"
  /\ LET step == searchMultipleStep(searchReplies[searchAttempt + 1], searchAttempt)
     IN IF step.next = "retry"
        THEN /\ qpc' = "sleeping"
             /\ UNCHANGED searchResult
        ELSE /\ qpc' = "done"
             /\ searchResult' = <<step.response>>
  /\ UNCHANGED <<searchOp, searchCount, searchReplies, searchAttempt, searchPending>>
  /\ UNCHANGED notSearch

\* searchReddit: the request of this attempt settles
SearchRedditAttemptSettles ==
  /\ qpc = "fetching"
  /\ searchOp = "searchReddit"
  /\ LET step == searchRedditStep(searchReplies[searchAttempt + 1], searchAttempt)
     IN IF step.next = "retry"
        THEN /\ qpc' = "sleeping"
             /\ UNCHANGED searchResult
        ELSE /\ qpc' = "done"
             /\ searchResult' = <<step.response>>
  /\ UNCHANGED <<searchOp, searchCount, searchReplies, searchAttempt, searchPending>>
  /\ UNCHANGED notSearch

\* await sleep(delayMs); continue
SearchSleepElapsed ==
  /\ qpc = "sleeping"
  /\ qpc' = "fetching"
  /\ searchAttempt' = searchAttempt + 1
  /\ UNCHANGED <<searchOp, searchCount, searchReplies, searchPending, searchResult>>
  /\ UNCHANGED notSearch

\* searchMany: the search of query i settles; Promise.all resolves with the
\* last of them
SearchManyQuerySettles(i) ==
  /\ qpc = "fetching"
  /\ searchOp = "searchMany"
  /\ i \in searchPending
  /\ searchResult' = [searchResult EXCEPT ![i] = searchOrEmpty(searchReplies[i])]
  /\ searchPending' = searchPending \ {i}
  /\ qpc' = IF searchPending = {i} THEN "done" ELSE "fetching"
  /\ UNCHANGED <<searchOp, searchCount, searchReplies, searchAttempt>>
  /\ UNCHANGED notSearch

----------------------------------------------------------------------------
(* RedditClient: the cached access token, auth, getPost, getPosts          *)
(* (lib/reddit.ts)                                                         *)

\* the safety window of auth: a token is reused until 60000 ms before its
\* expiry
SAFETY_WINDOW_MS == 60000

\* largest number of urls of one getPosts call
MaxUrls == 3

\* getPosts calls made on one client
MaxGetPostsCalls == 2

\* the clock advances in steps of the safety window, this many times
MaxTicks == 3

\* data.expires_in of the token response, in seconds
ExpiresIn == {60, 180}

\* the test at the top of auth: the cached token is returned
authCached == token /\ now < tokenExpiry - SAFETY_WINDOW_MS

\* where the getPost call of a url is after its synchronous part: parseUrl,
\* then auth up to its first await
getPost(valid) ==
  IF ~valid THEN "rejected"
  ELSE IF authCached THEN "fetching"
  ELSE "refreshing"

\* the token requests in flight
RefreshesInFlight == {i \in 1..Len(posts) : posts[i] = "refreshing"}

\* Promise.all of getPosts resolves when every getPost call has settled
AllSettled(ps) == \A i \in 1..Len(ps) : ps[i] \in {"resolved", "rejected"}

RedditIdle ==
  /\ token = FALSE
  /\ tokenExpiry = 0
  /\ now = 0
  /\ redditUrls = <<>>
  /\ posts = <<>>
  /\ refreshes = 0
  /\ getPostsCalls = 0
  /\ gpc = "none"

\* new RedditClient(clientId, clientSecret)
RedditInit ==
  /\ token = FALSE
  /\ tokenExpiry = 0
  /\ now \in {0, SAFETY_WINDOW_MS}
  /\ redditUrls = <<>>
  /\ posts = <<>>
  /\ refreshes = 0
  /\ getPostsCalls = 0
  /\ gpc = "idle"

\* getPosts(urls): urls.map calls getPost for every url, each running up to
\* its first pending await before the next starts
getPosts(us) ==
  /\ gpc = "idle"
  /\ getPostsCalls < MaxGetPostsCalls
  /\ getPostsCalls' = getPostsCalls + 1
  /\ redditUrls' = us
  /\ posts' = [i \in 1..Len(us) |-> getPost(us[i])]
  /\ refreshes' = Cardinality({i \in 1..Len(us) : getPost(us[i]) = "refreshing"})
  /\ gpc' = IF AllSettled(posts') THEN "idle" ELSE "running"
  /\ UNCHANGED <<token, tokenExpiry, now>>
  /\ UNCHANGED notReddit

\* the access-token request of getPost call i is answered: auth stores the
\* token and getPost sends the listing request, or auth throws
AuthResponse(i, ok, expires_in) ==
  /\ gpc = "running"
  /\ i \in RefreshesInFlight
  /\ IF ok
     THEN /\ token' = TRUE
          /\ tokenExpiry' = now + expires_in * 1000
          /\ posts' = [posts EXCEPT ![i] = "fetching"]
     ELSE /\ posts' = [posts EXCEPT ![i] = "rejected"]
          /\ UNCHANGED <<token, tokenExpiry>>
  /\ gpc' = IF AllSettled(posts') THEN "idle" ELSE "running"
  /\ UNCHANGED <<now, redditUrls, refreshes, getPostsCalls>>
  /\ UNCHANGED notReddit

\* the listing request of getPost call i is answered
PostResponse(i, ok) ==
  /\ gpc = "running"
  /\ i \in 1..Len(posts)
  /\ posts[i] = "fetching"
  /\ posts' = [posts EXCEPT ![i] = IF ok THEN "resolved" ELSE "rejected"]
  /\ gpc' = IF AllSettled(posts') THEN "idle" ELSE "running"
  /\ UNCHANGED <<token, tokenExpiry, now, redditUrls, refreshes, getPostsCalls>>
  /\ UNCHANGED notReddit

\* time passes
Tick ==
  /\ gpc \in {"idle", "running"}
  /\ now < MaxTicks * SAFETY_WINDOW_MS
  /\ now' = now + SAFETY_WINDOW_MS
  /\ UNCHANGED <<token, tokenExpiry, redditUrls, posts, refreshes, getPostsCalls, gpc>>
  /\ UNCHANGED notReddit

----------------------------------------------------------------------------
(* processContentWithLLM (services/llm-processor.ts)                       *)

\* LLM_RETRY_CONFIG
LLM_RETRY_CONFIG == [maxRetries |-> 3]

\* RETRYABLE_LLM_ERROR_CODES
RETRYABLE_LLM_ERROR_CODES ==
  {"rate_limit_exceeded", "server_error", "timeout", "service_unavailable"}

\* maxInputChars of processContentWithLLM
maxInputChars == 100000

\* a content string: its length, whether trim() leaves nothing of it, and
\* whether it ends in the truncation note
Content(chars, blank, note) == [chars |-> chars, blank |-> blank, note |-> note]
NoContent == Content(0, TRUE, FALSE)

\* the content arguments of the model
Contents ==
  {NoContent, Content(3, TRUE, FALSE), Content(3, FALSE, FALSE),
   Content(maxInputChars, FALSE, FALSE), Content(maxInputChars + 1, FALSE, FALSE)}

\* content.length > maxInputChars ? content.substring(0, maxInputChars) + note
\*                                : content
truncatedContent(content) ==
  IF content.chars > maxInputChars
  THEN Content(maxInputChars, content.blank, TRUE)
  ELSE content

\* an error of the provider SDK that carries an error code
ErrLLMRateLimitCode ==
  Err("Error", "string", <<"quota">>, "rate_limit_exceeded", "Error", 0)

\* how one chat.completions.create call ends: it resolves with a response
\* whose choices[0].message.content is a text, an empty or blank string or
\* absent, or it rejects
LLMReplies ==
  [kind : {"response"}, text : {"text", "empty", "blank", "absent"}, error : {ErrNull}]
  \cup [kind : {"rejects"}, text : {"absent"},
        error : {ErrNull, ErrBoom, ErrTimeoutMsg, ErrHttp429, ErrHttp401,
                 ErrRateLimitString, ErrLLMRateLimitCode, ErrNumericMessage}]
NoLLMReply == [kind |-> "none", text |-> "absent", error |-> ErrNull]

\* the text the model extracted
ExtractedContent == Content(7, FALSE, FALSE)

\* isRetryableLLMError, for the errors classifyError accepts
isRetryableLLMError(e) ==
  IF e.tag = "null" THEN FALSE
  ELSE IF e.status \in {429, 500, 502, 503, 504} THEN TRUE
  ELSE IF e.code \in RETRYABLE_LLM_ERROR_CODES THEN TRUE
  ELSE LET message == IF e.tag # "string" /\ e.msgType = "string"
                      THEN toLowerCase(e.words) ELSE <<>>
       IN \/ Includes(message, <<"rate", "limit">>)
          \/ Includes(message, <<"timeout">>)
          \/ Includes(message, <<"timed", "out">>)
          \/ Includes(message, <<"service", "unavailable">>)
          \/ Includes(message, <<"server", "error">>)
          \/ Includes(message, <<"connection">>)
          \/ Includes(message, <<"econnreset">>)

\* an LLMResult; error = "none" and errorDetails = NoStructured when the
\* fields are absent
LLMResult(content, processed, error, errorDetails) ==
  [content |-> content, processed |-> processed, error |-> error,
   errorDetails |-> errorDetails]
NoLLMResult == LLMResult(NoContent, FALSE, "none", NoStructured)

\* the body of the retry loop for one rep: return a result, sleep and go
\* round again, or raise out of the catch block
llmStep(content, rep, att) ==
  IF rep.kind = "response"
  THEN IF rep.text = "text"
       THEN [next |-> "return",
             result |-> LLMResult(ExtractedContent, TRUE, "none", NoStructured)]
       ELSE [next |-> "return",
             result |-> LLMResult(content, FALSE, "LLM returned empty response",
                                  StructuredError("INTERNAL_ERROR", FALSE, 0))]
  ELSE IF classifyErrorThrows(rep.error)
  THEN [next |-> "raise", result |-> NoLLMResult]
  ELSE IF isRetryableLLMError(rep.error) /\ att < LLM_RETRY_CONFIG.maxRetries
  THEN [next |-> "sleep", result |-> NoLLMResult]
  ELSE [next |-> "return",
        result |-> LLMResult(content, FALSE, "LLM extraction failed",
                             classifyError(rep.error))]

LLMIdle ==
  /\ llmContent = NoContent
  /\ llmUse = FALSE
  /\ llmProcessor = FALSE
  /\ llmPrompt = NoContent
  /\ llmAttempt = 0
  /\ llmReply = NoLLMReply
  /\ llmResult = NoLLMResult
  /\ lpc = "idle"

LLMInit ==
  /\ llmContent \in Contents
  /\ llmUse \in BOOLEAN
  /\ llmProcessor \in BOOLEAN
  /\ llmPrompt = NoContent
  /\ llmAttempt = 0
  /\ llmReply = NoLLMReply
  /\ llmResult = NoLLMResult
  /\ lpc = "init"

\* processContentWithLLM(content, config, processor) up to the first request
processContentWithLLM ==
  /\ lpc = "init"
  /\ IF ~llmUse
     THEN /\ llmResult' = LLMResult(llmContent, FALSE, "none", NoStructured)
          /\ lpc' = "done"
          /\ UNCHANGED llmPrompt
     ELSE IF ~llmProcessor
     THEN /\ llmResult' = LLMResult(llmContent, FALSE, "LLM processor not available",
                                    StructuredError("AUTH_ERROR", FALSE, 0))
          /\ lpc' = "done"
          /\ UNCHANGED llmPrompt
     ELSE IF llmContent.blank
     THEN /\ llmResult' = LLMResult(llmContent, FALSE, "Empty content provided",
                                    NoStructured)
          /\ lpc' = "done"
          /\ UNCHANGED llmPrompt
     ELSE /\ llmPrompt' = truncatedContent(llmContent)
          /\ lpc' = "requesting"
          /\ UNCHANGED llmResult
  /\ UNCHANGED <<llmContent, llmUse, llmProcessor, llmAttempt, llmReply>>
  /\ UNCHANGED notLLM

\* processor.chat.completions.create settles and the rest of the loop body
\* runs
LLMReplyArrives(rep) ==
  /\ lpc = "requesting"
  /\ llmReply' = rep
  /\ LET step == llmStep(llmContent, rep, llmAttempt)
     IN /\ lpc' = CASE step.next = "return" -> "done"
                    [] step.next = "sleep" -> "sleeping"
                    [] OTHER -> "raised"
        /\ llmResult' = step.result
  /\ UNCHANGED <<llmContent, llmUse, llmProcessor, llmPrompt, llmAttempt>>
  /\ UNCHANGED notLLM

\* await sleep(delayMs); continue
LLMSleepElapsed ==
  /\ lpc = "sleeping"
  /\ lpc' = "requesting"
  /\ llmAttempt' = llmAttempt + 1
  /\ UNCHANGED <<llmContent, llmUse, llmProcessor, llmPrompt, llmReply, llmResult>>
  /\ UNCHANGED notLLM

----------------------------------------------------------------------------
(* Shutdown: gracefulShutdown and the process handlers (index.ts)          *)

\* shutdown triggers received by one process in the model
MaxTriggers == 3

\* the process events with a handler
TriggerKinds == {"SIGTERM", "SIGINT", "uncaughtException", "unhandledRejection"}

\* the exit code each handler passes to gracefulShutdown
HandlerExitCode(kind) == IF kind \in {"SIGTERM", "SIGINT"} THEN 0 ELSE 1

gracefulShutdownProceeds_always == TRUE

\* the guard of gracefulShutdown: if (isShuttingDown) return
gracefulShutdownProceeds == ~isShuttingDown

ShutdownIdle ==
  /\ isShuttingDown = FALSE
  /\ sigintListener = FALSE
  /\ triggers = <<>>
  /\ closeCalls = 0
  /\ closeError = FALSE
  /\ pendingExit = Undefined
  /\ exitCode = Undefined
  /\ hpc = "idle"

\* the handlers are registered and the server is connected
ShutdownInit ==
  /\ isShuttingDown = FALSE
  /\ sigintListener = TRUE
  /\ triggers = <<>>
  /\ closeCalls = 0
  /\ closeError = FALSE
  /\ pendingExit = Undefined
  /\ exitCode = Undefined
  /\ hpc = "serving"

\* gracefulShutdown(code) up to await server.close()
gracefulShutdown(code) ==
  IF gracefulShutdownProceeds
  THEN /\ isShuttingDown' = TRUE
       /\ closeCalls' = closeCalls + 1
       /\ pendingExit' = Given(code)
       /\ hpc' = "closing"
  ELSE UNCHANGED <<isShuttingDown, closeCalls, pendingExit, hpc>>

\* a process event with a registered handler arrives: SIGTERM, the first
\* SIGINT, an uncaught exception or an unhandled rejection (whose handler
\* classifies the reason first; if classifyError raises, the exception is
\* uncaught and the uncaughtException handler runs)
Trigger(kind) ==
  /\ hpc \in {"serving", "closing"}
  /\ Len(triggers) < MaxTriggers
  /\ kind = "SIGINT" => sigintListener
  /\ triggers' = Append(triggers, kind)
  /\ sigintListener' = IF kind = "SIGINT" THEN FALSE ELSE sigintListener
  /\ gracefulShutdown(HandlerExitCode(kind))
  /\ UNCHANGED <<closeError, exitCode>>
  /\ UNCHANGED notShutdown

\* a SIGINT after the once() listener was removed: no listener is left and
\* the signal terminates the process
SecondSigint ==
  /\ hpc \in {"serving", "closing"}
  /\ Len(triggers) < MaxTriggers
  /\ ~sigintListener
  /\ triggers' = Append(triggers, "SIGINT")
  /\ hpc' = "killed"
  /\ UNCHANGED <<isShuttingDown, sigintListener, closeCalls, closeError, pendingExit,
                 exitCode>>
  /\ UNCHANGED notShutdown

\* gracefulShutdown without its finally block: process.exit follows the
\* close only when it resolved
CloseSettles_exitInTry(ok) ==
  /\ hpc = "closing"
  /\ closeError' = ~ok
  /\ exitCode' = IF ok THEN pendingExit ELSE exitCode
  /\ hpc' = IF ok THEN "exited" ELSE "serving"
  /\ UNCHANGED <<isShuttingDown, sigintListener, triggers, closeCalls, pendingExit>>
  /\ UNCHANGED notShutdown

\* server.close() resolves or rejects (the catch block logs the error); the
\* finally block calls process.exit(exitCode)
CloseSettles(ok) ==
  /\ hpc = "closing"
  /\ closeError' = ~ok
  /\ exitCode' = pendingExit
  /\ hpc' = "exited"
  /\ UNCHANGED <<isShuttingDown, sigintListener, triggers, closeCalls, pendingExit>>
  /\ UNCHANGED notShutdown

----------------------------------------------------------------------------
(* handleDeepResearch (tools/research.ts) behind the deep_research entry   *)
(* of the registry                                                         *)

MIN_QUESTIONS == 1
MAX_QUESTIONS == 10

\* longest question list of the model (besides the one over MAX_QUESTIONS)
MaxQuestions == 3

\* what client.research does to a question: it resolves with a response
\* holding content (an answer, an answer quoting the error heading, or the
\* empty string), resolves with a response holding an error, or rejects
ResearchReplies ==
  [kind : {"content"}, content : {<<"answer">>, <<"see", "#", "CROSS", "Error", "codes">>, <<>>},
   error : {ErrNull}]
  \cup [kind : {"error"}, content : {<<>>}, error : {ErrNull}]
  \cup [kind : {"rejects"}, content : {<<>>}, error : {ErrBoom, ErrNumericMessage}]

\* question texts: an ordinary one, and one that quotes the error heading
QuestionTexts == {<<"why", "rust">>, <<"what", "is", "#", "CROSS", "Error">>}

Questions == [question : QuestionTexts, rep : ResearchReplies]

\* the question lists of the model: up to MaxQuestions arbitrary questions,
\* and one list that is longer than MAX_QUESTIONS
QuestionLists ==
  UNION {[1..n -> Questions] : n \in 0..MaxQuestions}
  \cup {[i \in 1..(MAX_QUESTIONS + 1) |->
          [question |-> <<"why", "rust">>,
           rep |-> [kind |-> "content", content |-> <<"answer">>, error |-> ErrNull]]]}

\* a QuestionResult; error = <<>> when the field is undefined
QuestionResult(question, content, success, error) ==
  [question |-> question, content |-> content, success |-> success, error |-> error]
NoQuestionResult == QuestionResult(<<>>, <<>>, FALSE, <<"pending">>)

\* the async callback of questions.map for one question, where it returns
QuestionOutcome(q) ==
  IF q.rep.kind = "error"
  THEN QuestionResult(q.question, q.rep.content, FALSE, <<"provider", "error">>)
  ELSE IF q.rep.kind = "content"
  THEN QuestionResult(q.question, q.rep.content, q.rep.content # <<>>,
                      IF q.rep.content # <<>> THEN <<>>
                      ELSE <<"Empty", "response", "received">>)
  ELSE QuestionResult(q.question, <<>>, FALSE, MessageText(q.rep.error))

\* the callback raises when its safety-net catch block calls classifyError
\* on a value classifyError raises for
QuestionThrows(q) == q.rep.kind = "rejects" /\ classifyErrorThrows(q.rep.error)

RECURSIVE ResearchMarkdown(_)
\* the sections of the markdown, one per result, in order
ResearchMarkdown(rs) ==
  IF rs = <<>> THEN <<>>
  ELSE LET r == Head(rs) IN
       <<"##", "Question", ":">> \o r.question
       \o (IF r.success THEN r.content ELSE <<"**", "CROSS", "Error", ":", "**">> \o r.error)
       \o <<"---">> \o ResearchMarkdown(Tail(rs))

ResearchIdle ==
  /\ researchQuestions = <<>>
  /\ researchClientOk = FALSE
  /\ researchPending = {}
  /\ researchResults = <<>>
  /\ researchOutcome = Pending
  /\ xpc = "idle"

ResearchInit ==
  /\ researchQuestions \in QuestionLists
  /\ researchClientOk \in BOOLEAN
  /\ researchPending = {}
  /\ researchResults = <<>>
  /\ researchOutcome = Pending
  /\ xpc = "init"

\* handleDeepResearch up to await Promise.all: validation, client
\* construction, one research promise per question
DeepResearchCall ==
  /\ xpc = "init"
  /\ IF Len(researchQuestions) < MIN_QUESTIONS
     THEN /\ researchOutcome' =
               executeToolShape("deep_research",
                 <<"#", "CROSS", "Error", "\n", "\n", "Minimum", "1", "research", "question">>)
          /\ xpc' = "returned"
          /\ UNCHANGED <<researchPending, researchResults>>
     ELSE IF Len(researchQuestions) > MAX_QUESTIONS
     THEN /\ researchOutcome' =
               executeToolShape("deep_research",
                 <<"#", "CROSS", "Error", "\n", "\n", "Maximum", "10", "research", "questions">>)
          /\ xpc' = "returned"
          /\ UNCHANGED <<researchPending, researchResults>>
     ELSE IF ~researchClientOk
     THEN /\ researchOutcome' =
               executeToolShape("deep_research",
                 <<"#", "CROSS", "Error", "\n", "\n", "Failed", "to", "initialize">>)
          /\ xpc' = "returned"
          /\ UNCHANGED <<researchPending, researchResults>>
     ELSE /\ researchPending' = 1..Len(researchQuestions)
          /\ researchResults' = [i \in 1..Len(researchQuestions) |-> NoQuestionResult]
          /\ xpc' = "running"
          /\ UNCHANGED researchOutcome
  /\ UNCHANGED <<researchQuestions, researchClientOk>>
  /\ UNCHANGED notResearch

\* the research promise of question i settles; if its callback raises,
\* Promise.all rejects and so does the handler, whose exception executeTool
\* turns into an error result
ResearchSettles(i) ==
  /\ xpc = "running"
  /\ i \in researchPending
  /\ researchPending' = researchPending \ {i}
  /\ IF QuestionThrows(researchQuestions[i])
     THEN /\ xpc' = "raised"
          /\ researchOutcome' = HandlerCatch(ErrNotAFunction)
          /\ UNCHANGED researchResults
     ELSE /\ researchResults' =
               [researchResults EXCEPT ![i] = QuestionOutcome(researchQuestions[i])]
          /\ UNCHANGED <<xpc, researchOutcome>>
  /\ UNCHANGED <<researchQuestions, researchClientOk>>
  /\ UNCHANGED notResearch

\* Promise.all resolved: the markdown is built and returned, and executeTool
\* applies transformResponse of the deep_research entry to it
ResearchCompletes ==
  /\ xpc = "running"
  /\ researchPending = {}
  /\ researchOutcome' =
       executeToolShape("deep_research",
         <<"#", "Deep", "Research", "Results">> \o ResearchMarkdown(researchResults))
  /\ xpc' = "returned"
  /\ UNCHANGED <<researchQuestions, researchClientOk, researchPending, researchResults>>
  /\ UNCHANGED notResearch

----------------------------------------------------------------------------
(* ScraperClient.scrape request by request, under scrapeWithFallback and   *)
(* batchScrape (part_006)                                                  *)

\* SCRAPER.RETRY_COUNT, scaled down
RETRY_COUNT == 2

\* largest batch of urls; the urls of a batch share no state, so the model
\* scrapes them one after the other
MaxBatchUrls == 2

\* RETRYABLE_STATUS_CODES
RETRYABLE_STATUS_CODES == {429, 502, 503, 504, 510}

\* what the provider does to one request: answer with a status and a body,
\* or make fetchWithTimeout throw (a network error, the abort of the
\* deadline, another exception, a value with a numeric message)
LoopReplies ==
  [kind : {"status"}, status : {200, 400, 401, 403, 404, 408, 418, 429, 500, 502, 599},
   body : {<<"body">>, <<"gateway", "timeout">>}, error : {NoError}]
  \cup [kind : {"throws"}, status : {0}, body : {<<>>},
        error : {ErrConnReset, ErrAbort, ErrBoom, ErrNumericMessage}]
NoLoopReply == [kind |-> "none", status |-> 0, body |-> <<>>, error |-> NoError]

\* the outcome of one iteration of the for loop of scrape
LoopRetry(error) == [next |-> "retry", response |-> ScrapeResponse(0, error)]
LoopReturn(r) == [next |-> "return", response |-> r]
LoopRaise == [next |-> "raise", response |-> NoScrapeResponse]

scrapeAttempt_retryableSetOnly(rep, att, retryCount) ==
  IF rep.kind = "status"
  THEN IF rep.status >= 200 /\ rep.status < 300
       THEN LoopReturn(ScrapeResponse(rep.status, NoStructured))
       ELSE IF rep.status = 404
       THEN LoopReturn(ScrapeResponse(404, NoStructured))
       ELSE IF rep.status \in PERMANENT_FAILURE_CODES
       THEN LoopReturn(ScrapeResponse(rep.status,
              StructuredError(IF rep.status = 401 THEN "AUTH_ERROR" ELSE "INVALID_INPUT",
                              FALSE, rep.status)))
       ELSE IF rep.status \in RETRYABLE_STATUS_CODES /\ att < retryCount - 1
       THEN LoopRetry(StructuredError(IF rep.status = 429 THEN "RATE_LIMITED"
                                      ELSE "SERVICE_UNAVAILABLE", TRUE, rep.status))
       ELSE LoopReturn(ScrapeResponse(rep.status,
              classifyError(Err("object", "string", rep.body, "none", "none", rep.status))))
  ELSE IF classifyErrorThrows(rep.error) THEN LoopRaise
  ELSE LET lastError == classifyError(rep.error) IN
       IF lastError.retryable /\ att < retryCount - 1 THEN LoopRetry(lastError)
       ELSE LoopReturn(ScrapeResponse(
              IF lastError.statusCode # 0 THEN lastError.statusCode ELSE 500, lastError))

scrapeAttempt_noCap(rep, att, retryCount) ==
  IF rep.kind = "status"
  THEN IF rep.status >= 200 /\ rep.status < 300
       THEN LoopReturn(ScrapeResponse(rep.status, NoStructured))
       ELSE IF rep.status = 404
       THEN LoopReturn(ScrapeResponse(404, NoStructured))
       ELSE IF rep.status \in PERMANENT_FAILURE_CODES
       THEN LoopReturn(ScrapeResponse(rep.status,
              StructuredError(IF rep.status = 401 THEN "AUTH_ERROR" ELSE "INVALID_INPUT",
                              FALSE, rep.status)))
       ELSE IF rep.status \in RETRYABLE_STATUS_CODES /\ att < retryCount
       THEN LoopRetry(StructuredError(IF rep.status = 429 THEN "RATE_LIMITED"
                                      ELSE "SERVICE_UNAVAILABLE", TRUE, rep.status))
       ELSE LET lastError ==
                  classifyError(Err("object", "string", rep.body, "none", "none", rep.status))
            IN IF att < retryCount /\ lastError.retryable
               THEN LoopRetry(lastError)
               ELSE LoopReturn(ScrapeResponse(rep.status, lastError))
  ELSE IF classifyErrorThrows(rep.error) THEN LoopRaise
  ELSE LET lastError == classifyError(rep.error) IN
       IF lastError.retryable /\ att < retryCount THEN LoopRetry(lastError)
       ELSE LoopReturn(ScrapeResponse(
              IF lastError.statusCode # 0 THEN lastError.statusCode ELSE 500, lastError))

\* one iteration of the for loop of ScraperClient.scrape for the provider
\* reply rep: sleep and try again, return a response, or raise (classifyError
\* raising inside the catch block)
scrapeAttempt(rep, att, retryCount) ==
  IF rep.kind = "status"
  THEN IF rep.status >= 200 /\ rep.status < 300
       THEN LoopReturn(ScrapeResponse(rep.status, NoStructured))
       ELSE IF rep.status = 404
       THEN LoopReturn(ScrapeResponse(404, NoStructured))
       ELSE IF rep.status \in PERMANENT_FAILURE_CODES
       THEN LoopReturn(ScrapeResponse(rep.status,
              StructuredError(IF rep.status = 401 THEN "AUTH_ERROR" ELSE "INVALID_INPUT",
                              FALSE, rep.status)))
       ELSE IF rep.status \in RETRYABLE_STATUS_CODES /\ att < retryCount - 1
       THEN LoopRetry(StructuredError(IF rep.status = 429 THEN "RATE_LIMITED"
                                      ELSE "SERVICE_UNAVAILABLE", TRUE, rep.status))
       ELSE LET lastError ==
                  classifyError(Err("object", "string", rep.body, "none", "none", rep.status))
            IN IF att < retryCount - 1 /\ lastError.retryable
               THEN LoopRetry(lastError)
               ELSE LoopReturn(ScrapeResponse(rep.status, lastError))
  ELSE IF classifyErrorThrows(rep.error) THEN LoopRaise
  ELSE LET lastError == classifyError(rep.error) IN
       IF ~lastError.retryable
       THEN LoopReturn(ScrapeResponse(
              IF lastError.statusCode # 0 THEN lastError.statusCode ELSE 500, lastError))
       ELSE IF att < retryCount - 1 THEN LoopRetry(lastError)
       ELSE LoopReturn(ScrapeResponse(
              IF lastError.statusCode # 0 THEN lastError.statusCode ELSE 500, lastError))

\* the rejection of scrapeWithFallback, as batchScrape records it
LoopRejected == ScrapeResponse(500, classifyError(ErrNotAFunction))

\* if (scrapeResult.error?.code === ErrorCode.RATE_LIMITED) rateLimitHits++
RateLimitHit(r) == IF r.error.code = "RATE_LIMITED" THEN 1 ELSE 0

ScrapeLoopIdle ==
  /\ batchLeft = 0
  /\ ladderPos = 0
  /\ tryIdx = 0
  /\ httpRequests = <<>>
  /\ lastHttp = NoLoopReply
  /\ lastTry = 0
  /\ lastDecision = "none"
  /\ loopLastError = NoStructured
  /\ sawRateLimit = FALSE
  /\ loopResult = NoScrapeResponse
  /\ rateLimitedUrls = 0
  /\ rateLimitHits = 0
  /\ ypc = "idle"

ScrapeLoopInit ==
  /\ batchLeft \in 1..MaxBatchUrls
  /\ ladderPos = 0
  /\ tryIdx = 0
  /\ httpRequests = [m \in 1..Len(Ladder) |-> 0]
  /\ lastHttp = NoLoopReply
  /\ lastTry = 0
  /\ lastDecision = "none"
  /\ loopLastError = NoStructured
  /\ sawRateLimit = FALSE
  /\ loopResult = NoScrapeResponse
  /\ rateLimitedUrls = 0
  /\ rateLimitHits = 0
  /\ ypc = "init"

\* batchScrape starts scrapeWithFallback(url) for the next url of the batch:
\* the first request of the first mode is issued
ScrapeUrlStarts ==
  /\ ypc = "init"
  /\ batchLeft > 0
  /\ batchLeft' = batchLeft - 1
  /\ ladderPos' = 1
  /\ tryIdx' = 0
  /\ httpRequests' = [m \in 1..Len(Ladder) |-> IF m = 1 THEN 1 ELSE 0]
  /\ lastHttp' = NoLoopReply
  /\ lastTry' = 0
  /\ lastDecision' = "none"
  /\ loopLastError' = NoStructured
  /\ sawRateLimit' = FALSE
  /\ loopResult' = NoScrapeResponse
  /\ ypc' = "fetching"
  /\ UNCHANGED <<rateLimitedUrls, rateLimitHits>>
  /\ UNCHANGED notScrapeLoop

\* the request in flight settles with rep and the rest of the loop body of
\* scrape runs; when scrape returns, so does the loop body of
\* scrapeWithFallback, which may issue the first request of the next mode
ScrapeRequestSettles(rep) ==
  /\ ypc = "fetching"
  /\ lastHttp' = rep
  /\ lastTry' = tryIdx
  /\ sawRateLimit' = (sawRateLimit \/ (rep.kind = "status" /\ rep.status = 429))
  /\ LET step == scrapeAttempt(rep, tryIdx, RETRY_COUNT) IN
     /\ lastDecision' = step.next
     /\ IF step.next = "retry"
        THEN /\ ypc' = "sleeping"
             /\ loopLastError' = step.response.error
             /\ UNCHANGED <<ladderPos, tryIdx, httpRequests, loopResult>>
        ELSE IF step.next = "raise"
        THEN /\ ypc' = "settled"
             /\ loopResult' = LoopRejected
             /\ UNCHANGED <<ladderPos, tryIdx, httpRequests, loopLastError>>
        ELSE /\ loopLastError' = step.response.error
             /\ IF FallbackDecision(ScrapeReturned(step.response)) = "return"
                THEN /\ ypc' = "settled"
                     /\ loopResult' = step.response
                     /\ UNCHANGED <<ladderPos, tryIdx, httpRequests>>
                ELSE IF ladderPos < Len(Ladder)
                THEN /\ ladderPos' = ladderPos + 1
                     /\ tryIdx' = 0
                     /\ httpRequests' = [httpRequests EXCEPT ![ladderPos + 1] = 1]
                     /\ UNCHANGED <<ypc, loopResult>>
                ELSE /\ ypc' = "settled"
                     /\ loopResult' =
                          ScrapeResponse(IF step.response.statusCode # 0
                                         THEN step.response.statusCode ELSE 500,
                                         StructuredError("SERVICE_UNAVAILABLE", FALSE, 0))
                     /\ UNCHANGED <<ladderPos, tryIdx, httpRequests>>
  /\ UNCHANGED <<batchLeft, rateLimitedUrls, rateLimitHits>>
  /\ UNCHANGED notScrapeLoop

\* await sleep(delayMs); continue: the next request of the mode is issued
ScrapeRetrySleepElapsed ==
  /\ ypc = "sleeping"
  /\ ypc' = "fetching"
  /\ tryIdx' = tryIdx + 1
  /\ httpRequests' = [httpRequests EXCEPT ![ladderPos] = @ + 1]
  /\ UNCHANGED <<batchLeft, ladderPos, lastHttp, lastTry, lastDecision, loopLastError,
                 sawRateLimit, loopResult, rateLimitedUrls, rateLimitHits>>
  /\ UNCHANGED notScrapeLoop

\* the loop over batchResults of batchScrape reaches this url's entry; after
\* the last url batchScrape returns
BatchScrapeCollects ==
  /\ ypc = "settled"
  /\ rateLimitHits' = rateLimitHits + RateLimitHit(loopResult)
  /\ rateLimitedUrls' = rateLimitedUrls + (IF sawRateLimit THEN 1 ELSE 0)
  /\ ypc' = IF batchLeft > 0 THEN "init" ELSE "done"
  /\ UNCHANGED <<batchLeft, ladderPos, tryIdx, httpRequests, lastHttp, lastTry,
                 lastDecision, loopLastError, sawRateLimit, loopResult>>
  /\ UNCHANGED notScrapeLoop

----------------------------------------------------------------------------
(* Specifications                                                          *)

DispatchInit ==
  /\ capabilities \in SUBSET CapabilityTags
  /\ DispatchIdle

DispatchNext ==
  \/ \E name \in RequestNames, args \in ArgValues : CallToolRequest(name, args)
  \/ ProviderCall
  \/ \E body \in UNION {HandlerBodies(n) : n \in ToolNames} : HandlerReturns(body)
  \/ \E error \in ThrownValues : HandlerThrows(error)
  \/ NextRequest

InitDispatch == DispatchInit /\ FanoutIdle /\ RetryIdle /\ PureIdle /\ ScrapeIdle /\ SearchIdle /\ RedditIdle
    /\ LLMIdle /\ ShutdownIdle /\ ResearchIdle /\ ScrapeLoopIdle

SpecDispatch == InitDispatch /\ [][DispatchNext]_vars

FanoutNext ==
  \/ processWithConcurrencyPool
  \/ \E i \in 0..(MaxInputs - 1) : PoolTaskFulfilled(i)
  \/ \E i \in 0..(MaxInputs - 1) : PoolTaskRejected(i)
  \/ batchScrape
  \/ scrapeMultiple
  \/ processBatchWithRetry
  \/ \E i \in 0..(MaxInputs - 1) : BatchTaskSettles(i)
  \/ BatchCollect
  \/ BatchSleepDone
  \/ processMultipleWithLLM
  \/ \E i \in 0..(MaxInputs - 1) : LLMTaskSettles(i)
  \/ LLMCollect
  \/ LLMSleepDone

InitFanout == FanoutInit /\ capabilities = {} /\ DispatchIdle /\ RetryIdle /\ PureIdle /\ ScrapeIdle /\ SearchIdle /\ RedditIdle
    /\ LLMIdle /\ ShutdownIdle /\ ResearchIdle /\ ScrapeLoopIdle

SpecFanout == InitFanout /\ [][FanoutNext]_vars

RetryNext ==
  \/ RetryCall
  \/ FnResolves
  \/ \E e \in ThrownValues : FnRejects(e)
  \/ SleepElapsed
  \/ CancelFires

InitRetry == RetryInit /\ capabilities = {} /\ DispatchIdle /\ FanoutIdle /\ PureIdle /\ ScrapeIdle /\ SearchIdle /\ RedditIdle
    /\ LLMIdle /\ ShutdownIdle /\ ResearchIdle /\ ScrapeLoopIdle

SpecRetry == InitRetry /\ [][RetryNext]_vars

PureNext ==
  \/ \E e \in ClassifyInputs : ClassifyErrorCall(e)
  \/ \E att \in 0..MaxAttemptIndex, options \in BackoffOptions, random \in RandomTenths :
       CalculateBackoffCall(att, options, random)
  \/ \E att \in 0..MaxAttemptIndex, config \in DelayConfigs : CalculateDelayCall(att, config)
  \/ \E count \in 0..MaxCount, budget \in Budgets : CalculateTokenAllocationCall(count, budget)
  \/ \E questionCount \in 0..MaxCount : ResearchTokenAllocationCall(questionCount)
  \/ \E n \in 2..MaxCount, c \in MaxCommentsValues, f \in BOOLEAN : GetRedditPostCall(n, c, f)
  \/ \E keywords \in KeyLists, n \in 0..(MaxKeys + 1) : SearchMultipleCall(keywords, n)
  \/ \E queries \in KeyLists : SearchRedditMultipleCall(queries)
  \/ \E us \in KeyLists : GetPostsCall(us)
  \/ PureDone

InitPure ==
  PureIdle /\ capabilities = {} /\ DispatchIdle /\ FanoutIdle /\ RetryIdle /\ ScrapeIdle
    /\ SearchIdle /\ RedditIdle /\ LLMIdle /\ ShutdownIdle /\ ResearchIdle
    /\ ScrapeLoopIdle

SpecPure == InitPure /\ [][PureNext]_vars

ScrapeNext ==
  \/ scrapeWithFallback
  \/ ScrapeModeSettles
  \/ ScrapeModeSettlesLegacy

InitScrape ==
  ScrapeInit /\ capabilities = {} /\ DispatchIdle /\ FanoutIdle /\ RetryIdle /\ PureIdle
    /\ SearchIdle /\ RedditIdle /\ LLMIdle /\ ShutdownIdle /\ ResearchIdle
    /\ ScrapeLoopIdle

SpecScrape == InitScrape /\ [][ScrapeNext]_vars

SearchNext ==
  \/ SearchCall
  \/ SearchMultipleAttemptSettles
  \/ SearchRedditAttemptSettles
  \/ SearchSleepElapsed
  \/ \E i \in 1..MaxQueries : SearchManyQuerySettles(i)

InitSearch ==
  SearchInit /\ capabilities = {} /\ DispatchIdle /\ FanoutIdle /\ RetryIdle /\ PureIdle
    /\ ScrapeIdle /\ RedditIdle /\ LLMIdle /\ ShutdownIdle /\ ResearchIdle
    /\ ScrapeLoopIdle

SpecSearch == InitSearch /\ [][SearchNext]_vars

RedditNext ==
  \/ \E n \in 1..MaxUrls : \E us \in [1..n -> BOOLEAN] : getPosts(us)
  \/ \E i \in 1..MaxUrls, ok \in BOOLEAN, expires_in \in ExpiresIn : AuthResponse(i, ok, expires_in)
  \/ \E i \in 1..MaxUrls, ok \in BOOLEAN : PostResponse(i, ok)
  \/ Tick

InitReddit ==
  RedditInit /\ capabilities = {} /\ DispatchIdle /\ FanoutIdle /\ RetryIdle /\ PureIdle
    /\ ScrapeIdle /\ SearchIdle /\ LLMIdle /\ ShutdownIdle /\ ResearchIdle
    /\ ScrapeLoopIdle

SpecReddit == InitReddit /\ [][RedditNext]_vars



LLMNext ==
  \/ processContentWithLLM
  \/ \E rep \in LLMReplies : LLMReplyArrives(rep)
  \/ LLMSleepElapsed

InitLLM ==
  LLMInit /\ capabilities = {} /\ DispatchIdle /\ FanoutIdle /\ RetryIdle /\ PureIdle
    /\ ScrapeIdle /\ SearchIdle /\ RedditIdle /\ ShutdownIdle /\ ResearchIdle
    /\ ScrapeLoopIdle

SpecLLM == InitLLM /\ [][LLMNext]_vars



ShutdownNext ==
  \/ \E kind \in TriggerKinds : Trigger(kind)
  \/ SecondSigint
  \/ \E ok \in BOOLEAN : CloseSettles(ok)

InitShutdown ==
  ShutdownInit /\ capabilities = {} /\ DispatchIdle /\ FanoutIdle /\ RetryIdle /\ PureIdle
    /\ ScrapeIdle /\ SearchIdle /\ RedditIdle /\ LLMIdle /\ ResearchIdle
    /\ ScrapeLoopIdle

SpecShutdown == InitShutdown /\ [][ShutdownNext]_vars



ResearchNext ==
  \/ DeepResearchCall
  \/ \E i \in 1..MaxQuestions : ResearchSettles(i)
  \/ ResearchCompletes

InitResearch ==
  ResearchInit /\ capabilities = {} /\ DispatchIdle /\ FanoutIdle /\ RetryIdle /\ PureIdle
    /\ ScrapeIdle /\ SearchIdle /\ RedditIdle /\ LLMIdle /\ ShutdownIdle
    /\ ScrapeLoopIdle

SpecResearch == InitResearch /\ [][ResearchNext]_vars



ScrapeLoopNext ==
  \/ ScrapeUrlStarts
  \/ \E rep \in LoopReplies : ScrapeRequestSettles(rep)
  \/ ScrapeRetrySleepElapsed
  \/ BatchScrapeCollects

InitScrapeLoop ==
  ScrapeLoopInit /\ capabilities = {} /\ DispatchIdle /\ FanoutIdle /\ RetryIdle /\ PureIdle
    /\ ScrapeIdle /\ SearchIdle /\ RedditIdle /\ LLMIdle /\ ShutdownIdle /\ ResearchIdle

SpecScrapeLoop == InitScrapeLoop /\ [][ScrapeLoopNext]_vars

\* every retry loop of the code base: the engines, the search and LLM
\* adapters and the scraper
RetryLoopsNext == RetryNext \/ SearchNext \/ LLMNext \/ ScrapeLoopNext

InitRetryLoops == InitRetry \/ InitSearch \/ InitLLM \/ InitScrapeLoop

SpecRetryLoops == InitRetryLoops /\ [][RetryLoopsNext]_vars

CommentsNext ==
  \/ /\ pcall = NoCall
     /\ \E t \in Listings, maxComments \in 0..(MaxNodes + 1) :
          GetPostCommentsCall(t, maxComments)
  \/ PureDone

SpecComments == InitPure /\ [][CommentsNext]_vars

\* the Reddit client while time keeps passing; the answers of the remote
\* side are not the client's to force, and neither fetch call arms a timer
FairReddit == SpecReddit /\ WF_vars(Tick)

\* the process while the promise of server.close() settles: gracefulShutdown
\* awaits it, and its continuation runs once it resolved or rejected
FairShutdown == SpecShutdown /\ WF_vars(\E ok \in BOOLEAN : CloseSettles(ok))

\* batchScrape while every pending step is taken: a request settles by its
\* response or by the abort of fetchWithTimeout, a backoff sleep elapses
FairScrapeLoop ==
  /\ SpecScrapeLoop
  /\ WF_vars(ScrapeUrlStarts)
  /\ WF_vars(\E rep \in LoopReplies : ScrapeRequestSettles(rep))
  /\ WF_vars(ScrapeRetrySleepElapsed)
  /\ WF_vars(BatchScrapeCollects)

Spec == SpecDispatch

----------------------------------------------------------------------------
(* Claims                                                                  *)

Replied == dpc = "replied"
Registered == request.name \in ToolNames
CapabilityDisabled ==
  Registered /\ CapabilityMissing(toolRegistry(request.name), capabilities)
RequestIssues == ZodIssues(toolRegistry(request.name).schema, request.args)

C2_DisabledCapabilityGated ==
  dpc # "idle" /\ CapabilityDisabled =>
    /\ Replied
    /\ execOutcome.kind = "result"
    /\ execOutcome.isError = "true"
    /\ execOutcome.text = getMissingEnvMessage(toolRegistry(request.name).capability)
    /\ ~handlerInvoked
    /\ providerCalls = 0

\* C2 witness: a gated request whose args would also have failed the schema
C2_Witness ==
  /\ Replied /\ CapabilityDisabled
  /\ RequestIssues # <<>>
  /\ execOutcome.isError = "true"

\* C6: every name that is not a registered tool makes executeTool raise
\* MethodNotFound, and that is the only way a call-tool request ends in a
\* raised fault.
C6_UnknownNameRaises ==
  Replied =>
    /\ ~Registered => execOutcome = Raised(ErrMethodNotFound) /\ reply = Raised(ErrMethodNotFound)
    /\ reply.kind = "raised" => ~Registered /\ reply.error = ErrMethodNotFound

\* C7: for a registered tool with its capability enabled, args that fail the
\* schema give an is_error result that lists every issue, path and message,
\* one per line, and the handler is not invoked.
C7_ValidationErrorListsIssues ==
  Replied /\ Registered /\ ~CapabilityDisabled /\ RequestIssues # <<>> =>
    /\ execOutcome.kind = "result"
    /\ execOutcome.isError = "true"
    /\ Includes(execOutcome.text, <<"#", "CROSS", "Validation", "Error">>)
    /\ \A k \in 1..Len(RequestIssues) :
         Includes(execOutcome.text,
                  <<"-", "**", PathString(RequestIssues[k].path), "**", ":",
                    RequestIssues[k].message>>)
    /\ Cardinality({j \in 1..Len(execOutcome.text) : execOutcome.text[j] = "-"})
         = Len(RequestIssues)
    /\ ~handlerInvoked

\* C7 witness: a validation error with two issues
C7_Witness ==
  /\ Replied /\ Registered /\ ~CapabilityDisabled
  /\ Len(RequestIssues) = 2
  /\ execOutcome.isError = "true"

\* C8: any exception a handler raises is classified and returned by
\* executeTool as an is_error result; it does not escape executeTool.
C8_HandlerExceptionReturned ==
  Replied /\ handlerOutcome.kind = "threw" =>
    /\ execOutcome.kind = "result"
    /\ execOutcome.isError = "true"

\* C9: whenever a registered tool's handler returns a failure body, the
\* result of executeTool has isError = true.
C9_FailureBodyIsError ==
  Replied /\ handlerOutcome.kind = "failure" => execOutcome.isError = "true"

Cap ==
  CASE executor = "pool" -> maxConcurrency
    [] executor \in BatchExecutors -> BATCH_SIZE
    [] executor = "llm" -> concurrency
    [] OTHER -> 0

\* C3: at every instant of a fan-out with cap K at most K tasks are started
\* and not finished (and the pool's own counter is that number).
C3_InFlightBounded ==
  /\ Cardinality(running) <= Cap
  /\ executor = "pool" => activeCount = Cardinality(running)

\* C3 witness: more inputs than slots, and the pool is full again after a
\* task finished and its slot was refilled
C3_Witness ==
  /\ executor = "pool"
  /\ Len(inputs) > maxConcurrency
  /\ Cardinality(running) = maxConcurrency
  /\ completedCount > 0

\* C4: the returned sequence has the length of the input sequence and its
\* element i is the result of the task on input i, whatever the completion
\* order; so it is a function of the inputs alone.
C4_OrderPreserved ==
  fpc = "resolved" =>
    /\ Len(results) = Len(inputs)
    /\ \A i \in 1..Len(inputs) :
         /\ results[i].url = inputs[i]
         /\ IF TaskOutcome(inputs[i]).status = "fulfilled"
            THEN results[i].kind = "ok" /\ results[i].value = TaskValue(inputs[i])
            ELSE results[i].kind = "error"

\* C4 witness: a resolved fan-out whose tasks settled out of input order
C4_Witness ==
  /\ fpc = "resolved"
  /\ Len(inputs) >= 2
  /\ inputs[1] # inputs[2]
  /\ \E j, k \in 1..Len(completionOrder) :
       j < k /\ completionOrder[j] > completionOrder[k]

Retryable(eng, e) ==
  IF eng = "withRetry" THEN classifyError(e).retryable ELSE is429(e)

\* the index of the last iteration of the engine's loop
LastAttempt(eng, m) == IF eng = "withRetry" THEN m ELSE m - 1

Classified(eng, e) == ~(eng = "withRetry" /\ classifyErrorThrows(e))

\* C10: a failure classified non-retryable ends the call at once with that
\* error, without a sleep or a further attempt; a retryable failure with
\* attempts remaining is followed by exactly one sleep and then the next
\* attempt; a retryable failure on the last attempt returns the last error
\* without sleeping.
C10_RetryDecision ==
  \A k \in 1..Len(history) :
    history[k].ev = "fail" /\ Classified(engine, history[k].error) =>
      LET e == history[k].error
          n == history[k].attempt
      IN IF ~Retryable(engine, e) \/ n = LastAttempt(engine, maxRetries)
         THEN /\ Len(history) = k + 1
              /\ history[k + 1] = Event("return", n, e)
              /\ rpc = "done"
              /\ ~retryResult.success
              /\ retryResult.error = e
              /\ sleeps = n
              /\ calls = n + 1
         ELSE /\ Len(history) >= k + 1
              /\ history[k + 1] = Event("sleep", n, e)
              /\ Len(history) = k + 1 => rpc = "sleep" /\ sleeps = n + 1 /\ calls = n + 1
              /\ Len(history) > k + 1 => history[k + 2] = Event("call", n + 1, NoError)

\* C10 witness: a call that slept after a retryable failure and then ended
\* on a non-retryable one
C10_Witness ==
  /\ rpc = "done"
  /\ sleeps >= 1
  /\ ~retryResult.success
  /\ Classified(engine, retryResult.error)
  /\ ~Retryable(engine, retryResult.error)

\* the number of invocations the engine's loop allows: attempt = 0..maxRetries
\* in withRetry, 0..maxRetries - 1 in retryWithBackoff
AttemptCap(eng, m) == IF eng = "withRetry" THEN m + 1 ELSE m

\* C11 (as stated): with maxRetries = m the operation is invoked at most m
\* times, the attempt index stays within 0..m-1, and with m = 1 it is invoked
\* exactly once and no sleep occurs.
C11_AtMostMInvocations ==
  engine # "none" =>
    /\ calls <= maxRetries
    /\ rpc \in {"attempt", "sleep"} => attempt <= maxRetries - 1
    /\ maxRetries = 1 => sleeps = 0 /\ (rpc = "done" => calls = 1)

\* C11 (amended): retryWithBackoff invokes the operation at most m times
\* (attempt 0..m-1) and with m = 1 exactly once without a sleep; withRetry
\* invokes it at most m + 1 times (attempt 0..m), sleeps at most m times, and
\* it is with m = 0 that it invokes exactly once without a sleep.
C11_AttemptCap ==
  engine # "none" =>
    /\ calls <= AttemptCap(engine, maxRetries)
    /\ rpc \in {"attempt", "sleep"} =>
         attempt <= AttemptCap(engine, maxRetries) - 1 /\ calls = attempt + 1
    /\ sleeps <= calls
    /\ AttemptCap(engine, maxRetries) = 1 =>
         sleeps = 0 /\ (rpc \in {"done", "raised"} => calls = 1)

\* C11 witness: withRetry with maxRetries = 1 made two invocations with a sleep
\* between them
C11_Witness ==
  /\ engine = "withRetry"
  /\ maxRetries = 1
  /\ rpc = "done"
  /\ calls = 2
  /\ sleeps = 1

\* C12: withRetry and retryWithBackoff never raise; whatever the operation
\* throws, the final failure is returned as a result carrying the last error.
C12_EngineNeverRaises ==
  /\ rpc # "raised"
  /\ rpc = "done" /\ calls > 0 /\ ~retryResult.success => retryResult.error = lastFailure

\* C13: classifyError applied to any value returns a StructuredError with a
\* defined code and retryable flag; it never raises.
C13_ClassifyErrorTotal ==
  pcall.fn = "classifyError" =>
    /\ pret.kind = "returned"
    /\ pret.value.code \in ErrorCodes
    /\ pret.value.retryable \in BOOLEAN

C15_AllocationWithinBudget ==
  pcall.fn = "calculateTokenAllocation" =>
    /\ pcall.count >= 1 =>
         /\ pret.value * pcall.count <= pcall.budget
         /\ pret.value >= 0
         /\ (pret.value + 1) * pcall.count > pcall.budget
    /\ pcall.count = 0 => pret.value = pcall.budget

\* C15 witness: a budget that does not divide evenly
C15_Witness ==
  /\ pcall.fn = "calculateTokenAllocation"
  /\ pcall.count >= 2
  /\ pret.value > 0
  /\ pret.value * pcall.count < pcall.budget

\* the capped allocation min(floor(1000 / n), 500)
CappedAllocation(n) == Min(MAX_COMMENT_BUDGET \div n, MAX_COMMENTS_PER_POST)

PermanentFailureAt(k) ==
  /\ behaviour[k].kind = "status"
  /\ behaviour[k].status \in PERMANENT_FAILURE_CODES

\* C17: in scrape-with-fallback, after a mode's response is a permanent
\* failure (HTTP 400, 401 or 403) no later mode is attempted and that failure
\* is returned; for 401 the returned error kind is Auth.
C17_PermanentFailureStopsLadder ==
  \A k \in 1..Len(attempted) :
    PermanentFailureAt(k) =>
      /\ Len(attempted) = k
      /\ spc = "returned"
      /\ fallbackResult.statusCode = behaviour[k].status
      /\ HasError(fallbackResult)
      /\ behaviour[k].status = 401 => fallbackResult.error.code = "AUTH_ERROR"

\* C18: the modes are tried in the order basic, javascript, javascript + US;
\* the first 2xx response or a 404 is returned at once, the 404 without an
\* error, and no further mode is attempted; a next mode is tried only after
\* a non-permanent (retryable) failure of the mode before it.  Stated of
\* scrapeWithFallback of part_006.
C18_LadderOrderAndStops ==
  client = "current" =>
    /\ Len(attempted) <= Len(Ladder)
    /\ \A k \in 1..Len(attempted) :
         /\ attempted[k].mode = Ladder[k]
         /\ attempted[k].outcome = scrape(behaviour[k])
         /\ k < Len(attempted) =>
              /\ HasError(attempted[k].outcome.response)
              /\ attempted[k].outcome.response.error.retryable
         /\ behaviour[k].kind = "status" /\ behaviour[k].status \in {200, 404} =>
              /\ Len(attempted) = k
              /\ spc = "returned"
              /\ fallbackResult = ScrapeResponse(behaviour[k].status, NoStructured)
    /\ spc = "running" => modeIdx = Len(attempted) + 1

\* C18 witness: two retryable failures, then a 404 from the third mode
C18_Witness ==
  /\ client = "current"
  /\ spc = "returned"
  /\ Len(attempted) = 3
  /\ behaviour[3].status = 404
  /\ fallbackResult.statusCode = 404
  /\ ~HasError(fallbackResult)

\* the provider's reply was a success: HTTP 200 with a JSON body
CleanReply(r) == r.kind = "status" /\ r.status = 200

\* the i-th response of the finished operation is that of a failure: the
\* last request made for it did not succeed (searchMultiple: or there were
\* no keywords)
SearchFailed(i) ==
  IF searchOp = "searchMany" THEN ~CleanReply(searchReplies[i])
  ELSE IF searchCount = 0 THEN searchOp = "searchMultiple"
  ELSE ~CleanReply(searchReplies[searchAttempt + 1])

\* C19: every adapter operation that fails returns a response whose error
\* field is set; no operation signals a failure by an empty or absent result.
C19_FailureHasErrorField ==
  qpc = "done" =>
    \A i \in 1..Len(searchResult) :
      SearchFailed(i) => searchResult[i].error.code # "none"

\* C20: per Reddit client instance at most one access-token request is in
\* flight at any time, and one getPosts call sends at most one, however many
\* getPost calls meet an empty or expired token.
C20_SingleFlightRefresh ==
  /\ Cardinality(RefreshesInFlight) <= 1
  /\ refreshes <= 1

\* the extraction did not succeed: the last request was rejected or its
\* response held no text
ExtractionFailed == llmReply.kind = "rejects" \/ (llmReply.kind = "response" /\ llmReply.text # "text")

\* C21: processContentWithLLM never raises; whenever the extraction does not
\* succeed it returns processed = false with the original, untruncated
\* content and an error set.
C21_NeverRaisesAndDegrades ==
  /\ lpc # "raised"
  /\ lpc = "done" /\ ExtractionFailed =>
       /\ ~llmResult.processed
       /\ llmResult.content = llmContent
       /\ llmResult.error # "none"
       /\ llmResult.errorDetails # NoStructured

\* C22: for any sequence and interleaving of shutdown triggers the server
\* close operation is invoked at most once.
C22_CloseAtMostOnce == closeCalls <= 1

\* C22 witness: three triggers arrived while one close is pending
C22_Witness ==
  /\ Len(triggers) = 3
  /\ closeCalls = 1
  /\ hpc = "closing"

\* some trigger so far was an uncaught exception or an unhandled rejection
FatalTriggered ==
  \E k \in 1..Len(triggers) : triggers[k] \in {"uncaughtException", "unhandledRejection"}

\* C23: a shutdown triggered by SIGTERM or SIGINT exits with code 0; an
\* uncaught exception or unhandled rejection leads to exit code 1, also when
\* it arrives while a signal-initiated shutdown is in progress.
C23_ExitCodeFollowsTrigger ==
  hpc = "exited" => exitCode = Given(IF FatalTriggered THEN 1 ELSE 0)

\* every task of the fan-out has produced its result
AllTasksHaveResult == \A i \in 1..Len(inputs) : results[i] # Unset

\* C24: the pool resolves exactly when all N tasks have produced a result:
\* never while a task lacks its result, always once every task has
\* finished, and each task is counted exactly once.
C24_ResolvesExactlyWhenAllDone ==
  executor = "pool" /\ fpc # "init" =>
    /\ fpc = "resolved" <=> AllTasksHaveResult
    /\ completedCount = Len(completionOrder)
    /\ \A j, k \in 1..Len(completionOrder) :
         j # k => completionOrder[j] # completionOrder[k]

\* C25: a fan-out called with an empty input sequence terminates and
\* returns an empty result sequence without starting any task.
C25_EmptyInputReturnsEmpty ==
  Len(inputs) = 0 /\ fpc # "init" =>
    /\ fpc = "resolved"
    /\ results = <<>>
    /\ started = {}

\* C26: a backoff sleep of the retry engine is cancellable: once a
\* cancellation signal has fired during the sleep, the sleep has ended, the
\* call has returned the last classified error with its retryable flag, and
\* no further attempt is made.
C26_SleepCancellable ==
  cancelRequested.given =>
    /\ rpc = "done"
    /\ calls = cancelRequested.value
    /\ ~retryResult.success
    /\ retryResult.error = lastFailure
    /\ engine = "withRetry" => retryResult.structured = classifyError(lastFailure)

\* the handler went through all questions and returned its markdown
ResearchAggregated == xpc = "returned" /\ Len(researchResults) = Len(researchQuestions) /\ Len(researchResults) > 0

\* C27: in deep_research a question whose model response is empty is marked
\* not successful with the message 'Empty response received', the results
\* of the other questions are unaffected, and the overall result has
\* isError = false if at least one question succeeded.
C27_EmptyResponseIsolated ==
  ResearchAggregated =>
    /\ \A i \in 1..Len(researchQuestions) :
         LET q == researchQuestions[i] IN
         /\ q.rep.kind = "content" /\ q.rep.content = <<>> =>
              /\ ~researchResults[i].success
              /\ researchResults[i].error = <<"Empty", "response", "received">>
         /\ q.rep.kind = "content" /\ q.rep.content # <<>> =>
              /\ researchResults[i].success
              /\ researchResults[i].content = q.rep.content
    /\ (\E i \in 1..Len(researchResults) : researchResults[i].success) =>
         researchOutcome.isError = "false"

\* the inputs whose task has finished, under every executor
FinishedCount == Len(completionOrder)

\* C28: in a fan-out with N inputs and cap K a new task is started as soon
\* as a running task finishes while unstarted inputs remain, so that
\* min(K, number of not-yet-finished inputs) tasks are in flight until the
\* inputs are exhausted.
C28_SlidingWindow ==
  fpc \in {"running", "sleeping"} =>
    Cardinality(running) = Min(Cap, Len(inputs) - FinishedCount)

\* the tasks of completionOrder
FinishedTasks == {completionOrder[k] : k \in 1..Len(completionOrder)}

\* C28 (as the code has it): the pool of the scrape-links test keeps
\* min(K, number of not-yet-finished inputs) tasks in flight; the batched
\* executors start no task beyond the current batch of K while one of its
\* tasks is unfinished or the pause between batches lasts, so fewer are in
\* flight.
C28_PoolSlidesBatchesWait ==
  /\ executor = "pool" /\ fpc = "running" =>
       Cardinality(running) = Min(maxConcurrency, Len(inputs) - FinishedCount)
  /\ executor \in BatchExecutors \cup {"llm"} /\ fpc \in {"running", "sleeping"} =>
       /\ started = 0..(Min(nextIndex + Cap, Len(inputs)) - 1)
       /\ running = BatchIndices(nextIndex, Cap, Len(inputs)) \ FinishedTasks

\* C28 witness: the pool refilled a slot, a task beyond the initial fill
\* is in flight with the window full
C28_Witness ==
  /\ executor = "pool"
  /\ fpc = "running"
  /\ \E i \in running : i >= maxConcurrency
  /\ Cardinality(running) = maxConcurrency

\* an error whose only distinguishing feature is its HTTP status: no error
\* code, an ordinary name, a message (if any) without a keyword
StatusOnly(e) ==
  /\ e.tag \in {"Error", "object"}
  /\ e.msgType \in {"undefined", "string"}
  /\ e.words \in {<<>>, <<"boom">>}
  /\ e.code = "none"
  /\ e.name = "Error"
  /\ e.status # 0

\* the kind the table of the claim gives a status
TableKind(status) ==
  CASE status = 400 -> "INVALID_INPUT"
    [] status = 401 -> "AUTH_ERROR"
    [] status = 403 -> "QUOTA_EXCEEDED"
    [] status = 404 -> "NOT_FOUND"
    [] status \in {408, 504} -> "TIMEOUT"
    [] status = 429 -> "RATE_LIMITED"
    [] status = 500 -> "INTERNAL_ERROR"
    [] status \in {502, 503, 510} -> "SERVICE_UNAVAILABLE"
    [] status > 500 -> "SERVICE_UNAVAILABLE"
    [] OTHER -> "UNKNOWN_ERROR"

\* the kinds the claim calls retryable
RetryableKinds ==
  {"RATE_LIMITED", "TIMEOUT", "NETWORK_ERROR", "SERVICE_UNAVAILABLE", "INTERNAL_ERROR"}

\* C29: for an error whose only distinguishing feature is an HTTP status
\* classifyError returns the kind of the status table (other statuses >= 500
\* ServiceUnavailable, any other Unknown) with the status attached; and on
\* every value classifyError returns, retryable is true exactly for the
\* kinds RateLimited, Timeout, Network, ServiceUnavailable and Internal.
C29_StatusTable ==
  pcall.fn = "classifyError" =>
    /\ StatusOnly(pcall.error) =>
         /\ pret.kind = "returned"
         /\ pret.value.code = TableKind(pcall.error.status)
         /\ pret.value.statusCode = pcall.error.status
    /\ pret.kind = "returned" =>
         (pret.value.retryable <=> pret.value.code \in RetryableKinds)

\* C29 witness: a status outside the table and above 500, classified
\* ServiceUnavailable and retryable
C29_Witness ==
  /\ pcall.fn = "classifyError"
  /\ StatusOnly(pcall.error)
  /\ pcall.error.status = 599
  /\ pret.kind = "returned"
  /\ pret.value.code = "SERVICE_UNAVAILABLE"
  /\ pret.value.retryable

\* the kind and retryability the prioritized rules of the claim give a
\* value (a name of AbortError is counted with the timeout codes, where
\* the code tests it)
PriorityKind(e) ==
  LET message == MessageText(e) IN
  IF e.tag = "null" THEN <<"UNKNOWN_ERROR", FALSE>>
  ELSE IF e.tag = "DOMAbort" THEN <<"TIMEOUT", TRUE>>
  ELSE IF e.code \in {"ECONNREFUSED", "ENOTFOUND", "ECONNRESET"} THEN <<"NETWORK_ERROR", TRUE>>
  ELSE IF \/ e.code \in {"ECONNABORTED", "ETIMEDOUT"}
          \/ e.name = "AbortError"
          \/ Includes(toLowerCase(message), <<"timeout">>)
          \/ Includes(toLowerCase(message), <<"timed", "out">>)
       THEN <<"TIMEOUT", TRUE>>
  ELSE IF e.status # 0
       THEN <<TableKind(e.status), TableKind(e.status) \in RetryableKinds>>
  ELSE IF \/ Includes(message, <<"API_KEY">>)
          \/ Includes(message, <<"api", "key">>)
          \/ Includes(message, <<"Invalid", "API">>)
       THEN <<"AUTH_ERROR", FALSE>>
  ELSE IF \/ Includes(message, <<"JSON">>)
          \/ Includes(message, <<"parse">>)
          \/ Includes(message, <<"Unexpected", "token">>)
       THEN <<"PARSE_ERROR", FALSE>>
  ELSE <<"UNKNOWN_ERROR", FALSE>>

\* C30: classifyError applies its rules in a fixed priority, first match
\* wins: null/undefined -> Unknown; abort token -> Timeout; socket code ->
\* Network; timeout code or message containing 'timeout' / 'timed out' ->
\* Timeout; HTTP status -> status table; message containing 'API_KEY',
\* 'api key' or 'Invalid API' -> Auth; message containing 'JSON', 'parse' or
\* 'Unexpected token' -> Parse; otherwise Unknown, non-retryable.
C30_PriorityOrder ==
  pcall.fn = "classifyError" =>
    /\ pret.kind = "returned"
    /\ pret.value.code = PriorityKind(pcall.error)[1]
    /\ pret.value.retryable = PriorityKind(pcall.error)[2]

\* the engines: a classified failure with attempts remaining is followed by
\* a sleep exactly if the classifier calls it retryable
EngineRetriesByFlag ==
  \A k \in 1..Len(history) :
    /\ history[k].ev = "fail"
    /\ ~classifyErrorThrows(history[k].error)
    /\ history[k].attempt < LastAttempt(engine, maxRetries)
    => /\ Len(history) > k
       /\ history[k + 1].ev = "sleep" <=> classifyError(history[k].error).retryable

\* the error value a search request's failure is classified from
SearchFailure(r) ==
  IF r.kind = "status"
  THEN Err("object", "string", <<"body">>, "none", "none", r.status)
  ELSE r.error

\* the search adapter (searchMultiple, searchReddit)
SearchRetriesByFlag ==
  /\ searchOp \in {"searchMultiple", "searchReddit"}
  /\ searchCount > 0
  /\ qpc \in {"sleeping", "done"}
  /\ searchAttempt < SEARCH_RETRY_CONFIG.maxRetries
  /\ searchReplies[searchAttempt + 1].kind \in {"status", "throws"}
  /\ ~(searchReplies[searchAttempt + 1].kind = "status"
       /\ searchReplies[searchAttempt + 1].status = 200)
  => (qpc = "sleeping"
      <=> classifyError(SearchFailure(searchReplies[searchAttempt + 1])).retryable)

\* the LLM adapter
LLMRetriesByFlag ==
  /\ lpc \in {"sleeping", "done"}
  /\ llmReply.kind = "rejects"
  /\ llmAttempt < LLM_RETRY_CONFIG.maxRetries
  => (lpc = "sleeping" <=> classifyError(llmReply.error).retryable)

\* the scraper: the failure of a request is retried within its mode exactly
\* if the error scrape made of it is retryable
ScraperRetriesByFlag ==
  /\ lastDecision \in {"retry", "return"}
  /\ loopLastError.code # "none"
  /\ lastTry < RETRY_COUNT - 1
  => (lastDecision = "retry" <=> loopLastError.retryable)

\* C31: every retry loop (retry engine, scraper, search and LLM adapters)
\* decides retry versus stop solely by the retryable flag of the classified
\* error: a failure is retried, attempts permitting, if and only if its
\* classified error has retryable = true.
C31_RetryByFlagOnly ==
  /\ EngineRetriesByFlag
  /\ SearchRetriesByFlag
  /\ LLMRetriesByFlag
  /\ ScraperRetriesByFlag

\* the search adapter retries an HTTP response exactly if its status is in
\* {429, 500, 502, 503, 504} and attempts remain
SearchRetriesStatusSet ==
  /\ searchOp \in {"searchMultiple", "searchReddit"}
  /\ searchCount > 0
  /\ qpc \in {"sleeping", "done"}
  /\ searchReplies[searchAttempt + 1].kind = "status"
  => (qpc = "sleeping"
      <=> /\ searchReplies[searchAttempt + 1].status \in {429, 500, 502, 503, 504}
          /\ searchAttempt < SEARCH_RETRY_CONFIG.maxRetries)

\* the scraper never retries a 400, 401 or 403
ScraperPermanentNotRetried ==
  lastHttp.kind = "status" /\ lastHttp.status \in {400, 401, 403} => lastDecision = "return"

\* C32 (as stated): the scraper retries an HTTP response within a mode only
\* when its status is in {429, 502, 503, 504, 510} and treats {400, 401, 403}
\* as permanent; the search adapter retries an HTTP response only when its
\* status is in {429, 500, 502, 503, 504}.
C32_RetryableStatusSets ==
  /\ lastHttp.kind = "status" /\ lastDecision = "retry" =>
       lastHttp.status \in {429, 502, 503, 504, 510}
  /\ ScraperPermanentNotRetried
  /\ SearchRetriesStatusSet

\* C32 (as the code has it): with attempts remaining in the mode the scraper
\* retries a response whose status is in {429, 502, 503, 504, 510} and also
\* any other status outside 2xx, 404 and {400, 401, 403} that classifyError,
\* given the status and the body, calls retryable (408, 500, the other
\* statuses >= 500, any status whose body speaks of a timeout); 400, 401 and
\* 403 are never retried; the search adapter is as stated.
C32_ScraperRetriesClassifiedToo ==
  /\ lastHttp.kind = "status" /\ lastDecision \in {"retry", "return"} =>
       (lastDecision = "retry"
        <=> /\ lastTry < RETRY_COUNT - 1
            /\ ~(lastHttp.status >= 200 /\ lastHttp.status < 300)
            /\ lastHttp.status \notin {404, 400, 401, 403}
            /\ \/ lastHttp.status \in {429, 502, 503, 504, 510}
               \/ classifyError(Err("object", "string", lastHttp.body, "none", "none",
                                    lastHttp.status)).retryable)
  /\ ScraperPermanentNotRetried
  /\ SearchRetriesStatusSet

\* C32 witness: the scraper backs off and retries after a 500, a status
\* outside its retryable set
C32_Witness ==
  /\ ypc = "sleeping"
  /\ lastDecision = "retry"
  /\ lastHttp.kind = "status"
  /\ lastHttp.status = 500
  /\ lastHttp.body = <<"body">>

\* C33: every multi-input adapter operation (batched search, multi-query
\* Reddit search, multi-URL Reddit fetch) returns exactly one result entry
\* per input, associated with that input's position or key, for every input
\* list, lists with duplicates and provider batch responses of another
\* length included.
C33_OneEntryPerInput ==
  /\ pcall.fn = "searchMultiple" =>
       /\ Len(pret.value) = Len(pcall.inputs)
       /\ \A i \in 1..Len(pcall.inputs) :
            /\ pret.value[i].keyword = pcall.inputs[i]
            /\ pret.value[i].results = ResultOf(i)
  /\ pcall.fn \in {"searchRedditMultiple", "getPosts"} =>
       /\ Cardinality(DOMAIN pret.value) = Len(pcall.inputs)
       /\ \A i \in 1..Len(pcall.inputs) : pret.value[pcall.inputs[i]] = ResultOf(i)

RECURSIVE IsAncestor(_, _, _)
\* node a is a proper ancestor of node c in listing t
IsAncestor(t, a, c) ==
  IF t.parent[c] = 0 THEN FALSE
  ELSE t.parent[c] = a \/ IsAncestor(t, a, t.parent[c])

\* the comments getPost can return: those with an author whose ancestors all
\* have one
Visible(t) ==
  {c \in 1..Len(t.parent) :
     /\ t.state[c] = "ok"
     /\ \A a \in 1..Len(t.parent) : IsAncestor(t, a, c) => t.state[a] = "ok"}

\* the whole traversal: getPost with room for every node
FullTraversal(t) ==
  extract(t, SortByScore(t, ChildrenFrom(t, 0, 1), <<>>), 0, <<>>, Len(t.parent))

\* C34: getPost returns the comment tree flattened depth-first with every
\* comment after its parent, siblings at each level in descending score
\* order, no comment with a deleted or missing author, and at most the
\* requested number of comments: the first maxComments of that traversal.
C34_CommentsFlattened ==
  pcall.fn = "getPost" =>
    LET t == pcall.listing
        out == pret.value
        full == FullTraversal(t)
    IN /\ Len(out) <= pcall.maxComments
       /\ Len(out) = IF Len(full) < pcall.maxComments THEN Len(full) ELSE pcall.maxComments
       /\ \A k \in 1..Len(out) : out[k] = full[k]
       /\ {full[k].id : k \in 1..Len(full)} = Visible(t)
       /\ \A k \in 1..Len(full) :
            /\ t.state[full[k].id] = "ok"
            /\ full[k].score = t.score[full[k].id]
            /\ t.parent[full[k].id] # 0 =>
                 \E j \in 1..(k - 1) :
                   full[j].id = t.parent[full[k].id] /\ full[k].depth = full[j].depth + 1
            /\ t.parent[full[k].id] = 0 => full[k].depth = 0
       /\ \A j, k \in 1..Len(full) :
            /\ j < k /\ t.parent[full[j].id] = t.parent[full[k].id] =>
                 full[j].score >= full[k].score
            /\ j # k => full[j].id # full[k].id
       /\ \A j, k, l \in 1..Len(full) :
            j < k /\ k < l /\ IsAncestor(t, full[j].id, full[l].id) =>
              IsAncestor(t, full[j].id, full[k].id)

\* C34 witness: a second top-level comment moved to the front by its score,
\* its reply right after it, and the result cut at maxComments before the
\* first top-level comment
C34_Witness ==
  /\ pcall.fn = "getPost"
  /\ Len(pcall.listing.parent) >= 1 /\ Len(pret.value) >= 2
  /\ pcall.listing.state[1] = "ok" /\ pcall.listing.parent[1] = 0
  /\ pret.value[1].id # 1
  /\ \E k \in 1..Len(pret.value) : pret.value[k].depth = 1
  /\ Len(pret.value) = pcall.maxComments
  /\ Len(pret.value) < Cardinality(Visible(pcall.listing))

\* C37: every outbound HTTP call of an adapter carries a per-call deadline, on
\* whose expiry the call is aborted and fails as a retryable Timeout, so no
\* outbound call stays pending forever: a running getPosts call, whose
\* getPost calls wait on the token and listing requests, always settles.
C37_NoCallPendingForever == (gpc = "running") ~> (gpc = "idle")

\* the process has ended: process.exit ran, or a signal without a listener
\* terminated it
ProcessEnded == hpc \in {"exited", "killed"}

C35_HandlersNeverPropagate == xpc # "raised"

\* C38: when the caller supplies max_comments to get_reddit_post (comments
\* enabled), that value is the per-post comment count requested from the
\* adapter; when it is omitted the automatic allocation is requested.
C38_MaxCommentsOverrides ==
  pcall.fn = "handleGetRedditPosts" /\ pcall.fetch_comments =>
    pret.value = IF pcall.max_comments.given
                 THEN pcall.max_comments.value
                 ELSE calculateCommentAllocation(pcall.n).perPostCapped

\* the same for the supplied values the wrapper and the handler do not take
\* for an omitted one
C38_OverrideUnlessSentinel ==
  pcall.fn = "handleGetRedditPosts" /\ pcall.fetch_comments
    /\ pcall.max_comments \notin {Given(100), Given(0)} =>
    pret.value = IF pcall.max_comments.given
                 THEN pcall.max_comments.value
                 ELSE calculateCommentAllocation(pcall.n).perPostCapped

\* C39: the rateLimitHits value batchScrape returns equals the number of urls
\* of the batch run whose scraping was rate-limited (a request for the url
\* got HTTP 429, error code RATE_LIMITED).
C39_RateLimitHitsCounted == ypc = "done" => rateLimitHits = rateLimitedUrls

\* what batchScrape counts instead: a RATE_LIMITED error is retryable, so
\* scrapeWithFallback never returns one and nothing is ever counted
C39_RateLimitHitsStaysZero == rateLimitHits = 0

\* HTTP requests issued so far by the scrapeWithFallback call of the current
\* url, over the three modes of the ladder
TotalHttpRequests == httpRequests[1] + httpRequests[2] + httpRequests[3]

====
